---- MODULE Spec2Model ----
(***************************************************************************)
(* MMM-WeatherForecastGraph: the node helper (fetch orchestrator with its  *)
(* grid and data caches, retry policy and per-instance refresh timers) and *)
(* the front-end module's notification handler.                            *)
(*                                                                         *)
(* Time is abstracted: a pending setTimeout / setInterval callback or an   *)
(* outstanding HTTP request may complete at any later step, in any order,  *)
(* also while notifications are on their way to the browser.               *)
(***************************************************************************)
EXTENDS Integers, Sequences, FiniteSets, TLC

\* ---------------------------------------------------------------- bounds
\* number of fetchData invocations (registration fetches and interval
\* callbacks) started in one behaviour
MaxCalls == 2
\* number of failing upstream responses in one behaviour
MaxFail == 4
\* number of socket notifications in flight to the browser: an event that
\* would send one more is left out, an event that sends nothing is never
\* held back
MaxInFlight == 2
\* length of the duration strings tried on parseDuration
MaxDurLen == 4
\* number of raw records in a series handed to expandTimeSeries and to
\* extractPrecipitationPeriods
MaxRecords == 2
\* number of expanded samples in a list handed to findValueAtTime
MaxSamples == 2
\* number of wrappers a module object has handed to the framework that are
\* not yet in the document: an event that would hand over one more is left
\* out, an event that hands over nothing is never held back
MaxPendingDom == 1

\* ------------------------------------------------------ program constants
maxRetries == 3
retryDelayMs == 5000

\* -------------------------------------------------------------- universes
InstanceIds == {"m1", "m2"}

\* JavaScript null / undefined where a string is expected, and where an
\* object is expected
Null == "null"
Undefined == "undefined"
NullObj == [null |-> TRUE]
UndefinedObj == [undefined |-> TRUE]

\* CONFIG payloads (without instanceId); latitude 0 is a missing coordinate
CfgNYImperial == [latitude |-> 40, longitude |-> -74, units |-> "imperial", hoursToShow |-> 2]
CfgNYMetric == [latitude |-> 40, longitude |-> -74, units |-> "metric", hoursToShow |-> 1]
CfgLAImperial == [latitude |-> 34, longitude |-> -118, units |-> "imperial", hoursToShow |-> 2]
CfgNoLatitude == [latitude |-> 0, longitude |-> -74, units |-> "imperial", hoursToShow |-> 2]

Configs == {CfgNYImperial, CfgNYMetric, CfgLAImperial, CfgNoLatitude}

\* the config.js entries considered for each module object
ModuleConfigs(i) ==
  IF i = "m1" THEN {CfgNYImperial, CfgNoLatitude} ELSE {CfgNYMetric, CfgLAImperial}

\* `${latitude},${longitude}`
cacheKey(c) == <<c.latitude, c.longitude>>

CacheKeys == { cacheKey(c) : c \in Configs }

\* !latitude || !longitude
coordsMissing(c) == c.latitude = 0 \/ c.longitude = 0

\* values of pointsData.properties.forecastGridData in an ok points response
GridUrls == {"g1"}


\* fetchData invocations with retryCount = 0, in the order they are started
InvIds == 1..MaxCalls

\* ------------------------------------------------------------ normalization
\* Instants are JavaScript time values (milliseconds since the epoch).
\* Amounts that the code keeps with two decimals (pop, inches, display
\* thresholds) are held as integers counting hundredths.  A precipitation
\* record's value (quantitativePrecipitation, snowfallAmount: millimetres)
\* is held as an integer counting tenths of a millimetre, so that an amount
\* below 0.127 mm, which converts to 0.00 in, has a representation.
HourMs == 3600000

\* null where a number is expected (a sample value, a converted value)
NullNum == -1000000

\* a string is a sequence of its characters; `undefined` where a string is
\* expected (the second component of a split that found no "/")
UndefinedStr == <<Undefined>>

DigitChars == <<"0", "1", "2", "3", "4", "5", "6", "7", "8", "9">>

IsDigit(c) == \E k \in 1..10 : DigitChars[k] = c

DigitVal(c) == (CHOOSE k \in 1..10 : DigitChars[k] = c) - 1

\* parseInt(digits, 10) for a string of decimal digits
RECURSIVE parseInt(_)
parseInt(digits) ==
  IF digits = <<>> THEN 0
  ELSE 10 * parseInt(SubSeq(digits, 1, Len(digits) - 1)) + DigitVal(digits[Len(digits)])

\* \d+ is greedy: the index of the first character at or after q that is
\* not a digit
RECURSIVE digitsEnd(_, _)
digitsEnd(s, q) ==
  IF q <= Len(s) /\ IsDigit(s[q]) THEN digitsEnd(s, q + 1) ELSE q

\* /PT(\d+)H/ matches s at position p (the pattern is not anchored)
matchesAt(s, p) ==
  /\ p + 3 <= Len(s)
  /\ s[p] = "P" /\ s[p + 1] = "T"
  /\ digitsEnd(s, p + 2) > p + 2
  /\ digitsEnd(s, p + 2) <= Len(s)
  /\ s[digitsEnd(s, p + 2)] = "H"

\* duration.match(...) on undefined throws a TypeError
parseDurationThrows(duration) == duration = UndefinedStr

\* parseDuration: the first match of /PT(\d+)H/, or 1
parseDuration(duration) ==
  LET found == { p \in 1..Len(duration) : matchesAt(duration, p) } IN
  IF found = {} THEN 1
  ELSE LET p == CHOOSE x \in found : \A y \in found : x <= y IN
       parseInt(SubSeq(duration, p + 2, digitsEnd(duration, p + 2) - 1))

\* const [startStr, durationStr] = item.validTime.split("/"): validTime is
\* held as the list of its parts, <<>> when the record has no validTime;
\* the start is held as the instant new Date(startStr) gives
startOf(item) == item.validTime[1]

durationStrOf(item) ==
  IF Len(item.validTime) >= 2 THEN item.validTime[2] ELSE UndefinedStr

\* variant: one sample per record, whatever its duration
expandItemOnce(item) ==
  <<[time |-> startOf(item), value |-> item.value]>>

\* the samples pushed for one record
expandItem(item) ==
  [ h \in 1..parseDuration(durationStrOf(item)) |->
      [time |-> startOf(item) + (h - 1) * HourMs, value |-> item.value] ]

expandTimeSeriesThrows(values) ==
  \E k \in 1..Len(values) :
    values[k].validTime # <<>> /\ parseDurationThrows(durationStrOf(values[k]))

RECURSIVE expandTimeSeries(_)
expandTimeSeries(values) ==
  IF values = <<>> THEN <<>>
  ELSE (IF Head(values).validTime = <<>> THEN <<>> ELSE expandItem(Head(values)))
         \o expandTimeSeries(Tail(values))

\* first loop of findValueAtTime: the value of the first sample from index k
\* on whose hour holds the target; found is FALSE when the loop runs out
RECURSIVE firstHolding(_, _, _)
firstHolding(expandedValues, targetTime, k) ==
  IF k > Len(expandedValues) THEN [found |-> FALSE, value |-> NullNum]
  ELSE IF /\ expandedValues[k].time <= targetTime
          /\ targetTime < expandedValues[k].time + HourMs
    THEN [found |-> TRUE, value |-> expandedValues[k].value]
  ELSE firstHolding(expandedValues, targetTime, k + 1)

\* variant: the second loop stops at the first sample that is not after
\* the target
RECURSIVE closestBeforeFirst(_, _, _, _)
closestBeforeFirst(expandedValues, targetTime, k, closest) ==
  IF k > Len(expandedValues) THEN closest
  ELSE IF expandedValues[k].time <= targetTime THEN expandedValues[k].value
  ELSE closestBeforeFirst(expandedValues, targetTime, k + 1, closest)

\* second loop of findValueAtTime: closest is overwritten by every sample
\* that is not after the target
RECURSIVE closestBefore(_, _, _, _)
closestBefore(expandedValues, targetTime, k, closest) ==
  IF k > Len(expandedValues) THEN closest
  ELSE closestBefore(expandedValues, targetTime, k + 1,
                     IF expandedValues[k].time <= targetTime
                       THEN expandedValues[k].value ELSE closest)

findValueAtTime(expandedValues, targetTime) ==
  IF firstHolding(expandedValues, targetTime, 1).found
    THEN firstHolding(expandedValues, targetTime, 1).value
    ELSE closestBefore(expandedValues, targetTime, 1, NullNum)

\* Math.round of num / den for den > 0 (halves go up)
MathRound(num, den) == (2 * num + den) \div (2 * den)

\* Math.round(x) of a sample value: null counts as 0
MathRoundValue(x) == IF x = NullNum THEN 0 ELSE MathRound(x, 1)

\* variant: the offset of 32 is missing
celsiusToFahrenheitNoOffset(celsius) ==
  IF celsius = NullNum THEN NullNum ELSE MathRound(celsius * 9, 5)

\* Math.round((celsius * 9 / 5) + 32), null or undefined gives null
celsiusToFahrenheit(celsius) ==
  IF celsius = NullNum THEN NullNum ELSE MathRound(celsius * 9 + 32 * 5, 5)

kphToMph(kph) ==
  IF kph = NullNum THEN NullNum ELSE MathRound(kph * 621371, 1000000)

\* mm in tenths of a millimetre, the result in hundredths of an inch:
\* Math.round(mm * 0.0393701 * 100) / 100
mmToInches(mm) ==
  IF mm = NullNum THEN NullNum ELSE MathRound(mm * 393701, 1000000)

\* The local time of the helper process is a record `zone`: local time is
\* zone.before milliseconds ahead of UTC (east is positive) up to the
\* instant zone.at, at which the clocks are changed, and zone.after
\* milliseconds ahead from then on; a zone without a clock change has the
\* same offset on both sides.
\* the offset of local time from UTC at the instant t
offsetAt(t, zone) == IF t < zone.at THEN zone.before ELSE zone.after

\* the local time of the instant t, as the Date getters read it
LocalTime(t, zone) == t + offsetAt(t, zone)

\* the instant of a local time, as the Date setters resolve it: the local
\* time is read with the offset that applies to it; a local time the clocks
\* show twice (they were put back) is its first occurrence, and a local time
\* they never show (they were put forward over it) is read with the offset
\* of before the change
UTCOfLocal(tLocal, zone) ==
  IF tLocal - zone.before < zone.at THEN tLocal - zone.before
  ELSE IF tLocal - zone.after >= zone.at THEN tLocal - zone.after
  ELSE tLocal - zone.before

\* const startHour = new Date(now); startHour.setMinutes(0, 0, 0): the
\* minutes, seconds and milliseconds of the LOCAL time of `now` are set to 0
\* and the result is resolved to an instant again
startHourOf(now, zone) ==
  LET local == LocalTime(now, zone) IN UTCOfLocal(local - (local % HourMs), zone)

\* the quantities read from gridData.properties
RawQuantities ==
  {"temperature", "apparentTemperature", "windSpeed", "windGust",
   "probabilityOfPrecipitation", "quantitativePrecipitation", "snowfallAmount"}

\* units === "imperial" ? <converter>(x) : Math.round(x), metric branch
metricValue(x) == MathRoundValue(x)

\* variant: the probability is passed on as it was sampled
popOfSampled(pop) == pop

\* pop !== null ? pop / 100 : 0, in hundredths
popOf(pop) == IF pop # NullNum THEN pop ELSE 0

\* one element of hourly for the target time
hourlySample(tempValues, feelsLikeValues, windSpeedValues, windGustValues, popValues, targetTime, units) ==
  LET temp == findValueAtTime(tempValues, targetTime)
      feelsLike == findValueAtTime(feelsLikeValues, targetTime)
      windSpeed == findValueAtTime(windSpeedValues, targetTime)
      windGust == findValueAtTime(windGustValues, targetTime)
      pop == findValueAtTime(popValues, targetTime)
  IN [ dt |-> targetTime \div 1000,
       temp |-> IF units = "imperial" THEN celsiusToFahrenheit(temp) ELSE metricValue(temp),
       feels_like |-> IF units = "imperial" THEN celsiusToFahrenheit(feelsLike)
                      ELSE metricValue(feelsLike),
       wind_speed |-> IF units = "imperial" THEN kphToMph(windSpeed) ELSE metricValue(windSpeed),
       wind_gust |-> IF units = "imperial" THEN kphToMph(windGust) ELSE metricValue(windGust),
       pop |-> popOf(pop) ]

\* the period pushed for one record that overlaps the window (amount and
\* displayThreshold in hundredths, amount_mm in tenths of a millimetre)
periodOf(item, startHour, endTime, units, type) ==
  LET periodStart == startOf(item)
      periodEnd == periodStart + parseDuration(durationStrOf(item)) * HourMs
      displayStart == IF periodStart >= startHour THEN periodStart ELSE startHour
      displayEnd == IF periodEnd <= endTime THEN periodEnd ELSE endTime
  IN [ startIndex |-> (displayStart - startHour) \div HourMs,
       endIndex |-> (displayEnd - startHour) \div HourMs,
       amount_mm |-> item.value,
       amount |-> IF units = "imperial" THEN mmToInches(item.value)
                  ELSE IF item.value = NullNum THEN NullNum ELSE item.value * 10,
       displayThreshold |-> IF type = "snow"
                              THEN (IF units = "imperial" THEN 10 ELSE 250)
                              ELSE (IF units = "imperial" THEN 1 ELSE 25),
       units |-> units,
       type |-> type ]

\* the records extractPrecipitationPeriods does not skip before it splits
\* their validTime
extractReads(item) == item.validTime # <<>> /\ item.value # 0

extractPrecipitationPeriodsThrows(values) ==
  \E k \in 1..Len(values) :
    extractReads(values[k]) /\ parseDurationThrows(durationStrOf(values[k]))

\* variant: the overlap test is missing
outsideWindowNever(item, startHour, endTime) == FALSE

\* periodEnd <= startHour || periodStart >= endTime
outsideWindow(item, startHour, endTime) ==
  \/ startOf(item) + parseDuration(durationStrOf(item)) * HourMs <= startHour
  \/ startOf(item) >= endTime

RECURSIVE extractFrom(_, _, _, _, _)
extractFrom(values, startHour, endTime, units, type) ==
  IF values = <<>> THEN <<>>
  ELSE LET item == Head(values)
           rest == extractFrom(Tail(values), startHour, endTime, units, type)
       IN IF ~extractReads(item) THEN rest
          ELSE IF outsideWindow(item, startHour, endTime) THEN rest
          ELSE <<periodOf(item, startHour, endTime, units, type)>> \o rest

\* variant: the window starts at the clock reading
extractPrecipitationPeriodsFromNow(values, now, hoursToShow, units, type, zone) ==
  extractFrom(values, now, now + hoursToShow * HourMs, units, type)

\* extractPrecipitationPeriods in a helper whose local time is `zone` from UTC
extractPrecipitationPeriods(values, now, hoursToShow, units, type, zone) ==
  LET startHour == startHourOf(now, zone) IN
  extractFrom(values, startHour, startHour + hoursToShow * HourMs, units, type)

\* snowByStart.get(startIndex): the last snow period set under that key
snowByStartHas(snowPeriods, startIndex) ==
  \E k \in 1..Len(snowPeriods) : snowPeriods[k].startIndex = startIndex

snowByStartGet(snowPeriods, startIndex) ==
  LET at == { k \in 1..Len(snowPeriods) : snowPeriods[k].startIndex = startIndex } IN
  snowPeriods[CHOOSE k \in at : \A m \in at : k >= m]

\* variant: the native amount of the snow period is tested
snowPreferredNative(rain, snowPeriods) ==
  /\ snowByStartHas(snowPeriods, rain.startIndex)
  /\ snowByStartGet(snowPeriods, rain.startIndex).amount_mm > 0

\* the rain period takes the first branch: a snow period with the same
\* startIndex and a positive amount is used instead
snowPreferred(rain, snowPeriods) ==
  /\ snowByStartHas(snowPeriods, rain.startIndex)
  /\ snowByStartGet(snowPeriods, rain.startIndex).amount > 0

\* hourly[rain.startIndex]?.temp is known and at or below the freezing point
isFreezing(rain, hourly, units) ==
  /\ rain.startIndex + 1 \in 1..Len(hourly)
  /\ hourly[rain.startIndex + 1].temp # NullNum
  /\ hourly[rain.startIndex + 1].temp <= (IF units = "imperial" THEN 32 ELSE 0)

RECURSIVE mergeRain(_, _, _, _)
mergeRain(rainPeriods, snowPeriods, hourly, units) ==
  IF rainPeriods = <<>> THEN <<>>
  ELSE LET rain == Head(rainPeriods)
           rest == mergeRain(Tail(rainPeriods), snowPeriods, hourly, units)
       IN IF snowPreferred(rain, snowPeriods)
            THEN <<snowByStartGet(snowPeriods, rain.startIndex)>> \o rest
          ELSE IF rain.amount > 0 /\ ~isFreezing(rain, hourly, units)
            THEN <<rain>> \o rest
          ELSE rest

\* variant: no start index is recorded as used
usedSnowIndicesNone(rainPeriods, snowPeriods) == {}

\* usedSnowIndices after the pass over the rain periods
usedSnowIndices(rainPeriods, snowPeriods) ==
  { rainPeriods[k].startIndex : k \in { n \in 1..Len(rainPeriods) :
                                          snowPreferred(rainPeriods[n], snowPeriods) } }

mergePrecipitationPeriods(rainPeriods, snowPeriods, hourly, units) ==
  mergeRain(rainPeriods, snowPeriods, hourly, units)
    \o SelectSeq(snowPeriods,
                 LAMBDA snow : /\ snow.startIndex \notin usedSnowIndices(rainPeriods, snowPeriods)
                               /\ snow.amount > 0)

\* properties.<quantity>?.values || [] (a quantity that is absent is held
\* as the empty list)
valuesOf(properties, quantity) == properties[quantity]

processWeatherDataThrows(properties) ==
  \/ \E quantity \in {"temperature", "apparentTemperature", "windSpeed", "windGust",
                     "probabilityOfPrecipitation"} :
       expandTimeSeriesThrows(valuesOf(properties, quantity))
  \/ \E quantity \in {"quantitativePrecipitation", "snowfallAmount"} :
       extractPrecipitationPeriodsThrows(valuesOf(properties, quantity))

\* config.hoursToShow || 48 and config.units || "imperial"
hoursToShowOf(config) == IF config.hoursToShow = 0 THEN 48 ELSE config.hoursToShow

unitsOf(config) == IF config.units = "" THEN "imperial" ELSE config.units

\* processWeatherData with the clock reading `now`, in a helper whose local
\* time is `zone` from UTC
processWeatherData(properties, config, now, zone) ==
  LET hoursToShow == hoursToShowOf(config)
      units == unitsOf(config)
      tempValues == expandTimeSeries(valuesOf(properties, "temperature"))
      feelsLikeValues == expandTimeSeries(valuesOf(properties, "apparentTemperature"))
      windSpeedValues == expandTimeSeries(valuesOf(properties, "windSpeed"))
      windGustValues == expandTimeSeries(valuesOf(properties, "windGust"))
      popValues == expandTimeSeries(valuesOf(properties, "probabilityOfPrecipitation"))
      startHour == startHourOf(now, zone)
      hourly == [ n \in 1..hoursToShow |->
                    hourlySample(tempValues, feelsLikeValues, windSpeedValues,
                                 windGustValues, popValues,
                                 startHour + (n - 1) * HourMs, units) ]
      rainPeriods == extractPrecipitationPeriods(
                       valuesOf(properties, "quantitativePrecipitation"),
                       now, hoursToShow, units, "rain", zone)
      snowPeriods == extractPrecipitationPeriods(
                       valuesOf(properties, "snowfallAmount"),
                       now, hoursToShow, units, "snow", zone)
  IN [ hourly |-> hourly,
       precipitationPeriods |->
         mergePrecipitationPeriods(rainPeriods, snowPeriods, hourly, units) ]

\* a raw record "<start>/<duration>" with a value
Rec(start, duration, value) == [validTime |-> <<start, duration>>, value |-> value]

PT1H == <<"P", "T", "1", "H">>
PT2H == <<"P", "T", "2", "H">>
PT30M == <<"P", "T", "3", "0", "M">>
PT6H == <<"P", "T", "6", "H">>

NoSeries == [quantity \in RawQuantities |-> <<>>]

\* a grid body: temperature for two hours, a probability whose duration is
\* not in whole hours, one hour of rain; the other quantities are absent
RawForecast ==
  [NoSeries EXCEPT !["temperature"] = <<Rec(0, PT2H, 10)>>,
                   !["probabilityOfPrecipitation"] = <<Rec(0, PT30M, 40)>>,
                   !["quantitativePrecipitation"] = <<Rec(0, PT1H, 5)>>]

\* a grid body with a temperature record whose validTime has no "/<duration>"
RawNoDuration ==
  [NoSeries EXCEPT !["temperature"] = <<[validTime |-> <<0>>, value |-> 0]>>]

\* local times of the helper: UTC; a zone that is not a whole number of
\* hours from UTC (UTC+5:30, Asia/Kolkata); and a zone whose clocks are put
\* back an hour, from UTC-4 to UTC-5 as in America/New_York when daylight
\* saving time ends, at the instant HourMs, so that the clock readings from
\* HourMs to 2 * HourMs repeat the local hour of those from 0 to HourMs
UTC == [before |-> 0, after |-> 0, at |-> 0]

Kolkata == [before |-> 19800000, after |-> 19800000, at |-> 0]

NewYork == [before |-> 0 - 14400000, after |-> 0 - 18000000, at |-> HourMs]

Zones == {UTC, Kolkata, NewYork}

\* new Date() inside processWeatherData while the helper runs: half past
\* the hour the forecast starts at
HelperNow == 1800000

\* the local time of the helper while it runs
HelperZone == UTC

\* bodies of an ok grid response (gridData.properties)
RawProperties == {RawForecast, RawNoDuration}

VARIABLES
  feConfig,       \* this.config of each front-end module object (its config.js
                  \* entry, fixed while the helper process lives)
  instances,      \* this.instances: instanceId -> registered payload, or undefined
  timers,         \* number of setInterval timers created per instance
  gridUrlCache,   \* this.gridUrlCache: cacheKey -> url, or undefined
  dataCache,      \* this.dataCache: cacheKey -> payload, or undefined
  calls,          \* per fetchData invocation: the position of its async chain,
                  \* its retryCount, and how many attempts failed and how many
                  \* data / error notifications it has sent
  nCalls,         \* fetchData invocations started so far
  queue,          \* socket notifications sent and not yet handled by the front end
  fe,             \* front-end module objects, by identifier
  gridResolved,   \* has a points response given a grid URL for the cacheKey
  nFail,          \* failing upstream responses so far
  firstCfg,       \* per instance: did its first CONFIG find cached data
  norm,           \* the last call of a normalization function made on its own:
                  \* the function, its arguments and what it returned
  view            \* per front-end module object, when the browser side is run
                  \* on its own: has start() run, the socket notifications it
                  \* sent, what the last getDom() returned, renderPending, the
                  \* render timers not yet fired, and what this.charts draws

vars == <<feConfig, instances, timers, gridUrlCache, dataCache, calls, nCalls, queue, fe,
          gridResolved, nFail, firstCfg, norm, view>>

\* a fetchData chain that has not been started
NoCall == [inst |-> "none", kind |-> "none", pc |-> "none", retryCount |-> 0,
           url |-> Undefined, fails |-> 0, nData |-> 0, nErr |-> 0, delay |-> 0]

feInit == [weatherData |-> NullObj, precipitationPeriods |-> <<>>, errorMessage |-> Null]

\* no normalization function has been called on its own
NoNorm == [fn |-> "none"]

\* the front ends of the repository: the module fed by the node helper
\* (part_000, part_001) and the module fed by the
\* OPENWEATHER_FORECAST_WEATHER_UPDATE broadcast (MMM-WeatherForecastGraph.js)
FrontEnds == {"helper", "broadcast"}

\* a module object before start(): renderPending: false, charts: {}.
\* dom is what the document holds for the module, pending the wrappers
\* getDom() has returned that are not yet in the document, canvas what the
\* canvases of the document show, timers the render callbacks not yet run,
\* ahead the wrappers still waiting up to and including the one returned by
\* the getDom() call that scheduled the pending render
viewInit ==
  [frontEnd |-> "helper", started |-> FALSE, created |-> FALSE, sent |-> <<>>,
   dom |-> "none", pending |-> <<>>, renderPending |-> FALSE, timers |-> 0,
   ahead |-> 0, charts |-> NullObj, canvas |-> NullObj]

\* the module objects are not run on their own
NoView == <<>>

\* the helper after construction
HelperInit ==
  /\ instances = [i \in InstanceIds |-> UndefinedObj]
  /\ timers = [i \in InstanceIds |-> 0]
  /\ gridUrlCache = [k \in CacheKeys |-> Undefined]
  /\ dataCache = [k \in CacheKeys |-> UndefinedObj]
  /\ calls = [v \in InvIds |-> NoCall]
  /\ nCalls = 0
  /\ queue = <<>>
  /\ fe = [j \in InstanceIds |-> feInit]
  /\ gridResolved = [k \in CacheKeys |-> FALSE]
  /\ nFail = 0
  /\ firstCfg = [i \in InstanceIds |-> "none"]

Init ==
  /\ feConfig \in [InstanceIds -> Configs]
  /\ \A i \in InstanceIds : feConfig[i] \in ModuleConfigs(i)
  /\ HelperInit
  /\ norm = NoNorm
  /\ view = NoView

\* ------------------------------------------------------------ node helper
\* origin tag of a notification sent by the CONFIG handler (the other
\* notifications are tagged with the fetchData invocation that sent them)
FromConfig == 0

DataMsg(i, data, src) ==
  [type |-> "WEATHER_GRAPH_DATA", instanceId |-> i, data |-> data,
   error |-> Null, src |-> src]

\* variant: the error is addressed to another instance
ErrorMsgToOther(i, message, src) ==
  [type |-> "WEATHER_GRAPH_ERROR",
   instanceId |-> CHOOSE j \in InstanceIds : j # i,
   data |-> NullObj, error |-> message, src |-> src]

ErrorMsg(i, message, src) ==
  [type |-> "WEATHER_GRAPH_ERROR", instanceId |-> i, data |-> NullObj,
   error |-> message, src |-> src]

\* this.sendSocketNotification(...)
sendSocketNotification(q, msg) == Append(q, msg)

\* variant: the CONFIG handler sends nothing
cachedDeliveryNone(q, i, payload) == q

\* CONFIG handler, first half: "Always send cached data immediately if available"
cachedDelivery(q, i, payload) ==
  IF dataCache[cacheKey(payload)] # UndefinedObj
    THEN sendSocketNotification(q, DataMsg(i, dataCache[cacheKey(payload)], FromConfig))
    ELSE q

\* variant: the registration guard never finds the instance
isRegisteredNever(i) == FALSE

\* variant: an instance without coordinates is not taken as registered
isRegisteredOnlyWithCoords(i) ==
  instances[i] # UndefinedObj /\ ~coordsMissing(instances[i])

\* this.instances[instanceId] is truthy
isRegistered(i) == instances[i] # UndefinedObj

\* variant: the coordinate guard is missing
fetchDataStartUnguarded(old, config, retryCount) ==
  IF gridUrlCache[cacheKey(config)] = Undefined
    THEN [old EXCEPT !.pc = "points", !.retryCount = retryCount, !.url = Undefined]
    ELSE [old EXCEPT !.pc = "grid", !.retryCount = retryCount,
                     !.url = gridUrlCache[cacheKey(config)]]

\* fetchData up to its first await: the coordinate guard, the grid cache
\* lookup, and the request it issues (points on a miss, grid on a hit)
fetchDataStart(old, config, retryCount) ==
  IF coordsMissing(config)
    THEN [old EXCEPT !.pc = "nocoord", !.retryCount = retryCount]
    ELSE IF gridUrlCache[cacheKey(config)] = Undefined
      THEN [old EXCEPT !.pc = "points", !.retryCount = retryCount, !.url = Undefined]
      ELSE [old EXCEPT !.pc = "grid", !.retryCount = retryCount,
                       !.url = gridUrlCache[cacheKey(config)]]

\* a fresh invocation record of instance i
NewCall(i, kind) == [NoCall EXCEPT !.inst = i, !.kind = kind]

\* socketNotificationReceived("CONFIG", payload) of the helper, with the
\* synchronous part of fetchData and scheduleUpdate that it calls
ReceiveConfig(i, payload) ==
  /\ payload = feConfig[i]
  /\ isRegistered(i) \/ nCalls < MaxCalls
  /\ queue' = cachedDelivery(queue, i, payload)
  /\ Len(queue') <= MaxInFlight
  /\ IF ~isRegistered(i)
       THEN LET rec == fetchDataStart(NewCall(i, "initial"), payload, 0) IN
            /\ instances' = [instances EXCEPT ![i] = payload]
            /\ nCalls' = nCalls + 1
            /\ calls' = [calls EXCEPT ![nCalls + 1] = rec]
            /\ timers' = [timers EXCEPT ![i] = @ + 1]
            /\ firstCfg' = [firstCfg EXCEPT ![i] =
                              IF dataCache[cacheKey(payload)] # UndefinedObj
                                THEN "hit" ELSE "miss"]
       ELSE UNCHANGED <<instances, nCalls, calls, timers, firstCfg>>
  /\ UNCHANGED <<feConfig, gridUrlCache, dataCache, fe, gridResolved, nFail, norm, view>>

\* variant: the tick starts a fetch only when no invocation of the instance
\* has a request in flight or a retry pending
IntervalTickWhenIdle(i) ==
  /\ timers[i] > 0
  /\ nCalls < MaxCalls
  /\ \A v \in InvIds : calls[v].inst = i => calls[v].pc \notin {"points", "grid", "retry"}
  /\ nCalls' = nCalls + 1
  /\ calls' = [calls EXCEPT ![nCalls + 1] =
                  fetchDataStart(NewCall(i, "tick"), instances[i], 0)]
  /\ UNCHANGED <<feConfig, instances, timers, gridUrlCache, dataCache, queue, fe,
                 gridResolved, nFail, firstCfg, norm, view>>

\* the setInterval callback of scheduleUpdate: fetchData(instanceId)
IntervalTick(i) ==
  /\ timers[i] > 0
  /\ nCalls < MaxCalls
  /\ nCalls' = nCalls + 1
  /\ calls' = [calls EXCEPT ![nCalls + 1] =
                  fetchDataStart(NewCall(i, "tick"), instances[i], 0)]
  /\ UNCHANGED <<feConfig, instances, timers, gridUrlCache, dataCache, queue, fe,
                 gridResolved, nFail, firstCfg, norm, view>>

\* variant: one retry too many
shouldRetryOffByOne(retryCount) == retryCount <= maxRetries

\* variant: the retry ceiling is never applied
shouldRetryAlways(retryCount) == TRUE

\* retryCount < this.maxRetries
shouldRetry(retryCount) == retryCount < maxRetries

\* variant: a failure drops the cached payload of the coordinate pair
dataCacheAfterCatchCleared(key) == [dataCache EXCEPT ![key] = UndefinedObj]

\* variant: the delay grows by the base delay with each retry
retryDelayLinear(retryCount) == retryDelayMs * (retryCount + 1)

\* const delay = this.retryDelayMs * Math.pow(2, retryCount)
retryDelay(retryCount) == retryDelayMs * 2 ^ retryCount

\* the data cache as the catch branch leaves it
dataCacheAfterCatch(key) == dataCache

\* catch (error) of fetchData for invocation v
catchBranch(v, message) ==
  LET i == calls[v].inst IN
  /\ dataCache' = dataCacheAfterCatch(cacheKey(instances[i]))
  /\ IF shouldRetry(calls[v].retryCount)
       THEN /\ calls' = [calls EXCEPT ![v].pc = "retry", ![v].fails = @ + 1,
                                      ![v].delay = retryDelay(calls[v].retryCount)]
            /\ queue' = queue
       ELSE /\ calls' = [calls EXCEPT ![v].pc = "error", ![v].fails = @ + 1,
                                      ![v].nErr = @ + 1]
            /\ queue' = sendSocketNotification(queue, ErrorMsg(i, message, v))
            /\ Len(queue') <= MaxInFlight

\* the points response arrives (fetchData after its first await, up to the
\* second await or through the catch branch)
PointsResponse(v) ==
  LET i == calls[v].inst
      config == instances[i]
      key == cacheKey(config) IN
  /\ calls[v].pc = "points"
  /\ \/ \* ok response carrying a grid URL: cache it and request the grid
        \E u \in GridUrls :
          /\ gridUrlCache' = [gridUrlCache EXCEPT ![key] = u]
          /\ gridResolved' = [gridResolved EXCEPT ![key] = TRUE]
          /\ calls' = [calls EXCEPT ![v].pc = "grid", ![v].url = u]
          /\ UNCHANGED <<dataCache, queue, nFail>>
     \/ \* ok response whose properties lack forecastGridData: undefined is
        \* stored, which later lookups treat as a miss, and fetch(undefined)
        \* rejects
        /\ nFail < MaxFail
        /\ nFail' = nFail + 1
        /\ gridUrlCache' = [gridUrlCache EXCEPT ![key] = Undefined]
        /\ catchBranch(v, "Grid URL error")
        /\ UNCHANGED gridResolved
     \/ \* !pointsResponse.ok, a network error or a malformed body
        /\ nFail < MaxFail
        /\ nFail' = nFail + 1
        /\ catchBranch(v, "Points API error")
        /\ UNCHANGED <<gridUrlCache, gridResolved>>
  /\ UNCHANGED <<feConfig, instances, timers, nCalls, fe, firstCfg, norm, view>>

\* variant: Step 4 is missing
dataCacheAfterSuccessStale(key, processedData) == dataCache

\* the data cache after Step 4 of a successful fetch
dataCacheAfterSuccess(key, processedData) ==
  [dataCache EXCEPT ![key] = processedData]

\* const processedData = this.processWeatherData(gridData.properties, config),
\* tabulated for the bodies and configurations of the model
processedDataOf ==
  [properties \in { p \in RawProperties : ~processWeatherDataThrows(p) } |->
     [config \in Configs |-> processWeatherData(properties, config, HelperNow, HelperZone)]]

\* fetchData from Step 3 on, for an ok grid response whose body is
\* `properties`: processWeatherData returns and Steps 4 and 5 run, or it
\* throws and the catch branch runs
GridOk(v, properties) ==
  LET i == calls[v].inst
      config == instances[i]
      key == cacheKey(config) IN
  /\ calls[v].pc = "grid"
  /\ IF processWeatherDataThrows(properties)
       THEN /\ nFail < MaxFail
            /\ nFail' = nFail + 1
            /\ catchBranch(v, "TypeError")
       ELSE LET processedData == processedDataOf[properties][config] IN
            /\ dataCache' = dataCacheAfterSuccess(key, processedData)
            /\ queue' = sendSocketNotification(queue, DataMsg(i, processedData, v))
            /\ Len(queue') <= MaxInFlight
            /\ calls' = [calls EXCEPT ![v].pc = "data", ![v].nData = @ + 1]
            /\ UNCHANGED nFail
  /\ UNCHANGED <<feConfig, instances, timers, nCalls, gridUrlCache, fe,
                 gridResolved, firstCfg, norm, view>>

\* !gridResponse.ok, a network error, or a body that is not the JSON object
\* of a grid
GridFail(v) ==
  /\ calls[v].pc = "grid"
  /\ nFail < MaxFail
  /\ nFail' = nFail + 1
  /\ catchBranch(v, "Grid API error")
  /\ UNCHANGED <<feConfig, instances, timers, nCalls, gridUrlCache, fe,
                 gridResolved, firstCfg, norm, view>>

\* the grid response arrives (Steps 3 to 5, or the catch branch)
GridResponse(v) ==
  \/ \E properties \in RawProperties : GridOk(v, properties)
  \/ GridFail(v)

\* the setTimeout callback of the catch branch: fetchData(instanceId, retryCount + 1)
RetryFire(v) ==
  LET i == calls[v].inst
      rec == fetchDataStart(calls[v], instances[i], calls[v].retryCount + 1) IN
  /\ calls[v].pc = "retry"
  /\ calls' = [calls EXCEPT ![v] = rec]
  /\ UNCHANGED <<feConfig, instances, timers, nCalls, gridUrlCache, dataCache,
                 queue, fe, gridResolved, nFail, firstCfg, norm, view>>

\* -------------------------------------------------------------- front end
\* variant: the instanceId filter is missing
feSocketNotificationReceivedNoFilter(state, j, msg) ==
  IF msg.type = "WEATHER_GRAPH_DATA"
    THEN [weatherData |-> msg.data,
          precipitationPeriods |-> msg.data.precipitationPeriods,
          errorMessage |-> Null]
  ELSE IF msg.type = "WEATHER_GRAPH_ERROR"
    THEN [state EXCEPT !.errorMessage = msg.error]
  ELSE state

\* socketNotificationReceived of the module object with identifier j
feSocketNotificationReceived(state, j, msg) ==
  IF msg.instanceId # j THEN state
  ELSE IF msg.type = "WEATHER_GRAPH_DATA"
    THEN [weatherData |-> msg.data,
          precipitationPeriods |-> msg.data.precipitationPeriods,
          errorMessage |-> Null]
  ELSE IF msg.type = "WEATHER_GRAPH_ERROR"
    THEN [state EXCEPT !.errorMessage = msg.error]
  ELSE state

\* the oldest notification in flight reaches the browser, where every module
\* object of this module receives it
FrontEndReceive ==
  /\ queue # <<>>
  /\ fe' = [j \in InstanceIds |-> feSocketNotificationReceived(fe[j], j, Head(queue))]
  /\ queue' = Tail(queue)
  /\ UNCHANGED <<feConfig, instances, timers, gridUrlCache, dataCache, calls, nCalls,
                 gridResolved, nFail, firstCfg, norm, view>>

Next ==
  \/ \E i \in InstanceIds : \E payload \in Configs : ReceiveConfig(i, payload)
  \/ \E i \in InstanceIds : IntervalTick(i)
  \/ \E v \in InvIds : PointsResponse(v)
  \/ \E v \in InvIds : GridResponse(v)
  \/ \E v \in InvIds : RetryFire(v)
  \/ FrontEndReceive

Spec == Init /\ [][Next]_vars

\* ------------------------------------------- normalization functions alone
\* Each normalization function is also called on its own, once, in a fresh
\* helper, with its arguments drawn from the sets below.
helperVars == <<feConfig, instances, timers, gridUrlCache, dataCache, calls, nCalls,
                queue, fe, gridResolved, nFail, firstCfg>>

NormInit ==
  /\ feConfig = [i \in InstanceIds |-> IF i = "m1" THEN CfgNYImperial ELSE CfgNYMetric]
  /\ HelperInit
  /\ norm = NoNorm
  /\ view = NoView

\* all strings of at most n characters of the set
StringsUpTo(chars, n) == UNION { [1..k -> chars] : k \in 0..n }

P1D == <<"P", "1", "D">>
P1DT6H == <<"P", "1", "D", "T", "6", "H">>
PT2H30M == <<"P", "T", "2", "H", "3", "0", "M">>
PT12H == <<"P", "T", "1", "2", "H">>
PT0H == <<"P", "T", "0", "H">>

DurationChars == {"P", "T", "H", "M", "0", "1", "2"}

Durations ==
  StringsUpTo(DurationChars, MaxDurLen)
    \cup {PT30M, P1D, P1DT6H, PT2H30M, PT12H, UndefinedStr}

ParseDurationCall ==
  /\ norm = NoNorm
  /\ \E duration \in Durations :
       norm' = [fn |-> "parseDuration", duration |-> duration,
                threw |-> parseDurationThrows(duration),
                result |-> IF parseDurationThrows(duration) THEN 0
                           ELSE parseDuration(duration)]
  /\ UNCHANGED <<helperVars, view>>

\* raw records: with a start and a duration, with a start only, and
\* without validTime
SeriesStarts == {0, HourMs}

SeriesDurations == {PT1H, PT2H, PT0H, PT30M, PT2H30M}

SeriesValues == {10, NullNum}

SeriesItems ==
  { Rec(start, duration, value) :
      start \in SeriesStarts, duration \in SeriesDurations, value \in SeriesValues }
    \cup { [validTime |-> <<start>>, value |-> value] :
             start \in SeriesStarts, value \in SeriesValues }
    \cup { [validTime |-> <<>>, value |-> value] : value \in SeriesValues }

ExpandTimeSeriesCall ==
  /\ norm = NoNorm
  /\ \E values \in UNION { [1..k -> SeriesItems] : k \in 0..MaxRecords } :
       norm' = [fn |-> "expandTimeSeries", values |-> values,
                threw |-> expandTimeSeriesThrows(values),
                result |-> IF expandTimeSeriesThrows(values) THEN <<>>
                           ELSE expandTimeSeries(values)]
  /\ UNCHANGED <<helperVars, view>>

\* expanded samples and target instants (half past midnight is a sample
\* time that is not on the hour)
SampleTimes == {0, 1800000, 6 * HourMs}

SampleValues == {10, 20}

TargetTimes == {0 - HourMs, 0, HourMs, 3 * HourMs, 6 * HourMs, 7 * HourMs}

FindValueAtTimeCall ==
  /\ norm = NoNorm
  /\ \E expandedValues \in
          UNION { [1..k -> [time : SampleTimes, value : SampleValues]] : k \in 0..MaxSamples } :
       \E targetTime \in TargetTimes :
         norm' = [fn |-> "findValueAtTime", expandedValues |-> expandedValues,
                  targetTime |-> targetTime,
                  result |-> findValueAtTime(expandedValues, targetTime)]
  /\ UNCHANGED <<helperVars, view>>

\* precipitation records around a window that starts at midnight
PrecipStarts == {0 - HourMs, 0, 1800000, HourMs}

PrecipDurations == {PT1H, PT2H, PT0H}

\* records with an amount, and records with the amounts 0, null and -5
PrecipItems ==
  { Rec(start, duration, 5) : start \in PrecipStarts, duration \in PrecipDurations }
    \cup { Rec(0, PT1H, 0), Rec(0, PT1H, NullNum), Rec(0, PT1H, 0 - 5) }

UnitSystems == {"imperial", "metric"}

\* clock readings and local times of the helper for the extractor: half
\* past midnight UTC in the zones without a clock change, and half past the
\* hour that the clocks put back repeat
ExtractClocks == {<<1800000, UTC>>, <<1800000, Kolkata>>, <<HourMs + 1800000, NewYork>>}

ExtractPrecipitationPeriodsCall ==
  /\ norm = NoNorm
  /\ \E values \in UNION { [1..k -> PrecipItems] : k \in 0..MaxRecords } :
       \E clock \in ExtractClocks : \E hoursToShow \in {1, 2} :
         \E units \in UnitSystems : \E type \in {"rain", "snow"} :
           LET now == clock[1]
               zone == clock[2] IN
           norm' = [fn |-> "extractPrecipitationPeriods", values |-> values, now |-> now,
                    zone |-> zone,
                    hoursToShow |-> hoursToShow, units |-> units, type |-> type,
                    result |-> extractPrecipitationPeriods(values, now, hoursToShow,
                                                           units, type, zone)]
  /\ UNCHANGED <<helperVars, view>>

\* start() of the front end: Math.max(1, Math.min(48, this.config.hoursToShow))
clampHoursToShow(hoursToShow) ==
  IF hoursToShow > 48 THEN 48 ELSE IF hoursToShow < 1 THEN 1 ELSE hoursToShow

\* hoursToShow as written in config.js
ConfiguredHours == {0 - 1, 0, 1, 2, 3, 24, 48, 49, 100}

\* series of one quantity in a grid body
TemperatureSeries ==
  { <<>>, <<Rec(0, PT2H, 0 - 5)>>, <<Rec(0, PT1H, NullNum), Rec(2 * HourMs, PT30M, 21)>>,
    <<Rec(0, PT6H, 0)>>, <<Rec(1800000, PT6H, 0)>> }

PopSeries ==
  { <<>>, <<Rec(0, PT1H, 0), Rec(HourMs, PT2H, 100)>>, <<Rec(HourMs, PT1H, 40)>>,
    <<Rec(0, PT1H, NullNum)>> }

RainSeries ==
  { <<>>, <<Rec(0, PT2H, 5), Rec(HourMs, PT1H, 0)>>, <<Rec(1800000, PT2H, 5)>> }

SnowSeries ==
  { <<>>, <<Rec(0, PT2H, 30)>>, <<Rec(HourMs, PT1H, 30)>>,
    <<[validTime |-> <<0>>, value |-> 30]>> }

\* grid bodies: wind and apparent temperature are absent, or equal to the
\* temperature series
GridBodies ==
  { [NoSeries EXCEPT !["temperature"] = temperature,
                     !["windSpeed"] = wind,
                     !["probabilityOfPrecipitation"] = pop,
                     !["quantitativePrecipitation"] = rain,
                     !["snowfallAmount"] = snow] :
      temperature \in TemperatureSeries, wind \in {<<>>, <<Rec(0, PT1H, 16)>>},
      pop \in PopSeries, rain \in RainSeries, snow \in SnowSeries }

Nows == {0, 1800000, HourMs - 1, HourMs + 1800000}

\* clock readings and local times of the helper for processWeatherData: in
\* UTC at, inside and at the end of an hour and in the hour after it; in
\* UTC+5:30 in a local hour that began on the half hour of UTC; where the
\* clocks are put back, in the local hour that is shown for the second time
ProcessClocks ==
  { <<now, UTC>> : now \in Nows }
    \cup {<<HourMs - 1, Kolkata>>, <<HourMs + 1800000, NewYork>>}

\* the front end clamps hoursToShow, sends its configuration, and the helper
\* normalizes a grid body with it
ProcessWeatherDataCall ==
  /\ norm = NoNorm
  /\ \E properties \in GridBodies : \E configured \in ConfiguredHours :
       \E units \in UnitSystems : \E clock \in ProcessClocks :
         LET config == [hoursToShow |-> clampHoursToShow(configured), units |-> units]
             now == clock[1]
             zone == clock[2] IN
         norm' = [fn |-> "processWeatherData", properties |-> properties,
                  configured |-> configured, config |-> config, now |-> now,
                  zone |-> zone,
                  threw |-> processWeatherDataThrows(properties),
                  result |-> IF processWeatherDataThrows(properties)
                               THEN [hourly |-> <<>>, precipitationPeriods |-> <<>>]
                               ELSE processWeatherData(properties, config, now, zone)]
  /\ UNCHANGED <<helperVars, view>>

\* records of one hour that start in the first hour of the window, half an
\* hour later (clipped to the same startIndex) and in the second hour
MergeStarts == {0, 1800000, HourMs}

\* 0.5 mm at each start, and in the first hour a null amount and 0.1 mm,
\* which is 0.00 in
MergeRainItems ==
  { Rec(start, PT1H, 5) : start \in MergeStarts }
    \cup { Rec(0, PT1H, NullNum), Rec(0, PT1H, 1) }

MergeSnowItems ==
  { Rec(0, PT1H, 30), Rec(HourMs, PT1H, 30), Rec(0, PT1H, NullNum), Rec(0, PT1H, 1) }

\* the temp field of the first and of the second hourly sample
FirstHourTemps == {NullNum, 0, 32, 33}

SecondHourTemps == {33}

\* an element of hourly with the given temp
HourlyWithTemp(n, temp) ==
  [dt |-> (n - 1) * 3600, temp |-> temp, feels_like |-> temp,
   wind_speed |-> NullNum, wind_gust |-> NullNum, pop |-> 0]

\* the periods the extractor gives for a rain and for a snow series in a
\* window of two hours that starts at midnight (the helper's clock in UTC)
MergeRainPeriods(units) ==
  { extractPrecipitationPeriods(values, 0, 2, units, "rain", UTC) :
      values \in UNION { [1..k -> MergeRainItems] : k \in 0..MaxRecords } }

MergeSnowPeriods(units) ==
  { extractPrecipitationPeriods(values, 0, 2, units, "snow", UTC) :
      values \in UNION { [1..k -> MergeSnowItems] : k \in 0..MaxRecords } }

\* mergePrecipitationPeriods on such periods
MergePrecipitationPeriodsCall ==
  /\ norm = NoNorm
  /\ \E units \in UnitSystems :
       \E rainPeriods \in MergeRainPeriods(units) :
         \E snowPeriods \in MergeSnowPeriods(units) :
           \E first \in FirstHourTemps : \E second \in SecondHourTemps :
             LET hourly == <<HourlyWithTemp(1, first), HourlyWithTemp(2, second)>>
             IN norm' = [fn |-> "mergePrecipitationPeriods",
                         rainPeriods |-> rainPeriods, snowPeriods |-> snowPeriods,
                         hourly |-> hourly, units |-> units,
                         result |-> mergePrecipitationPeriods(rainPeriods, snowPeriods,
                                                              hourly, units)]
  /\ UNCHANGED <<helperVars, view>>

NormNext ==
  \/ MergePrecipitationPeriodsCall
  \/ ParseDurationCall
  \/ ExpandTimeSeriesCall
  \/ FindValueAtTimeCall
  \/ ExtractPrecipitationPeriodsCall
  \/ ProcessWeatherDataCall

NormSpec == NormInit /\ [][NormNext]_vars


\* ------------------------------------------------- the browser side alone
\* The module objects are also run on their own: start(), the notifications
\* that reach them, the deferred chart render, suspend() and resume().
\* updateDom() is the framework's: it calls getDom() at once and puts the
\* wrapper into the document later ("async DOM updates", part_000 440,
\* 540-541).  The source fixes no order between that and the render
\* callbacks, so a wrapper may be put into the document at any later step,
\* the wrappers of one module object in the order they were returned.
backVars == <<feConfig, instances, timers, gridUrlCache, dataCache, calls, nCalls, queue, gridResolved, nFail, firstCfg, norm>>

\* the config.js entries the module objects are run with on their own: the
\* front end reads the coordinates and hoursToShow of its configuration,
\* and in those CfgLAImperial is as CfgNYImperial
FrontConfigs(i) == ModuleConfigs(i) \ {CfgLAImperial}

\* all module objects of a mirror belong to the same front end
FrontInit ==
  /\ feConfig \in [InstanceIds -> Configs]
  /\ \A i \in InstanceIds : feConfig[i] \in FrontConfigs(i)
  /\ HelperInit
  /\ norm = NoNorm
  /\ \E frontEnd \in FrontEnds :
       view = [j \in InstanceIds |-> [viewInit EXCEPT !.frontEnd = frontEnd]]

\* the socket notifications start() sends: none without coordinates, else
\* CONFIG with {...this.config, instanceId: this.identifier}
startNotifications(j, config) ==
  IF coordsMissing(config) THEN <<>>
  ELSE <<[notification |-> "CONFIG", payload |-> config, instanceId |-> j]>>

\* start() of the module object with identifier j; the module fed by the
\* broadcast only clamps hoursToShow and sends nothing
start(j) ==
  /\ ~view[j].started
  /\ view' = [view EXCEPT ![j].started = TRUE,
                          ![j].sent = IF view[j].frontEnd = "helper"
                                        THEN startNotifications(j, feConfig[j])
                                        ELSE <<>>]
  /\ UNCHANGED <<backVars, fe>>

\* variant: the error message is looked at after the weather data
getDomBranchDataFirst(state, config) ==
  IF coordsMissing(config) THEN "config"
  ELSE IF state.weatherData # NullObj THEN "charts"
  ELSE IF state.errorMessage # Null THEN "error"
  ELSE "loading"

\* what getDom() puts into the wrapper: the configuration message, the error
\* message, the loading message or the chart containers
getDomBranch(state, config) ==
  IF coordsMissing(config) THEN "config"
  ELSE IF state.errorMessage # Null THEN "error"
  ELSE IF state.weatherData = NullObj THEN "loading"
  ELSE "charts"

\* getDom() of the module fed by the broadcast: the loading message or the
\* chart containers
getDomBranchBroadcast(state) ==
  IF state.weatherData = NullObj THEN "loading" ELSE "charts"

\* the wrapper getDom() returns
wrapperOf(state, config, v) ==
  IF v.frontEnd = "helper" THEN getDomBranch(state, config)
  ELSE getDomBranchBroadcast(state)

\* the module object after getDom(): with the chart containers a render is
\* scheduled unless one is pending
getDom(state, config, v) ==
  LET schedules == wrapperOf(state, config, v) = "charts" /\ ~v.renderPending
  IN [v EXCEPT !.renderPending = IF schedules THEN TRUE ELSE @,
               !.timers = IF schedules THEN @ + 1 ELSE @]

\* this.updateDom(speed): getDom() runs at once, the wrapper it returns
\* waits to be put into the document
updateDom(state, config, v) ==
  [getDom(state, config, v) EXCEPT
     !.pending = Append(@, wrapperOf(state, config, v)),
     !.ahead = IF getDom(state, config, v).timers > v.timers
                 THEN Len(v.pending) + 1 ELSE @]

\* the hours the charts are built from:
\* this.weatherData.hourly.slice(0, this.config.hoursToShow)
hoursOf(weatherData, config) ==
  [hours |-> SubSeq(weatherData.hourly, 1,
                    IF config.hoursToShow < Len(weatherData.hourly)
                      THEN config.hoursToShow
                      ELSE Len(weatherData.hourly))]

\* the charts renderCharts() builds, in this order: renderTemperatureChart,
\* renderWindChart, renderPrecipitationChart (showTemperature, showWind and
\* showPrecipitation are true by default)
ChartNames == <<"temp", "wind", "precip">>

\* which new Chart(...) of one renderCharts() throws: 0 for none, else the
\* first, the second or the third
Throws == 0..Len(ChartNames)

\* this.charts, and what their canvases show, when the first n charts have
\* been built from the hours of weatherData
chartsBuilt(weatherData, config, n) ==
  IF n = 0 THEN NullObj
  ELSE [hours |-> hoursOf(weatherData, config).hours, names |-> SubSeq(ChartNames, 1, n)]

\* renderCharts() gets as far as the new Chart(...) that throws
renderChartsThrows(state, v, throws) ==
  throws # 0 /\ state.weatherData # NullObj /\ v.dom = "charts"

\* the module object after renderCharts(): nothing without weather data;
\* else the charts are destroyed and new ones are built one after the other
\* on the canvases document.getElementById finds, which are those of the
\* chart containers the document holds at that moment; the charts built
\* before a new Chart(...) that throws stay
renderCharts(state, config, v, throws) ==
  IF state.weatherData = NullObj THEN v
  ELSE IF v.dom = "charts"
    THEN LET n == IF throws = 0 THEN Len(ChartNames) ELSE throws - 1
         IN [v EXCEPT !.charts = chartsBuilt(state.weatherData, config, n),
                      !.canvas = chartsBuilt(state.weatherData, config, n)]
  ELSE [v EXCEPT !.charts = NullObj, !.canvas = NullObj]

\* the setTimeout callback of getDom(): renderPending = false; renderCharts()
renderTimeout(state, config, v, throws) ==
  renderCharts(state, config,
               [v EXCEPT !.renderPending = FALSE, !.timers = @ - 1, !.ahead = 0], throws)

\* the requestAnimationFrame callback of getDom() of the module fed by the
\* broadcast: renderCharts(); renderPending = false, which is not reached
\* when renderCharts() throws
animationFrame(state, config, v, throws) ==
  LET rendered == renderCharts(state, config,
                               [v EXCEPT !.timers = @ - 1, !.ahead = 0], throws)
  IN IF renderChartsThrows(state, v, throws) THEN rendered
     ELSE [rendered EXCEPT !.renderPending = FALSE]

\* payloads the helper builds for the configurations that have coordinates
FrontPayloads ==
  { processedDataOf[properties][config] :
      properties \in DOMAIN processedDataOf,
      config \in { c \in Configs : ~coordsMissing(c) } }

FrontMessages ==
  { DataMsg(i, data, FromConfig) : i \in InstanceIds, data \in FrontPayloads }
    \cup { ErrorMsg(i, "Points API error", FromConfig) : i \in InstanceIds }

\* a notification of the helper reaches the browser: the helper addresses only
\* instanceIds it got in a CONFIG, every module object that opened its socket
\* receives the notification, and the addressed one calls updateDom()
Notification(msg) ==
  /\ view[msg.instanceId].sent # <<>>
  /\ fe' = [j \in InstanceIds |->
              IF view[j].sent # <<>> THEN feSocketNotificationReceived(fe[j], j, msg)
              ELSE fe[j]]
  /\ view' = [j \in InstanceIds |->
                IF j = msg.instanceId THEN updateDom(fe'[j], feConfig[j], view[j])
                ELSE view[j]]
  /\ Len(view'[msg.instanceId].pending) <= MaxPendingDom
  /\ UNCHANGED backVars

\* notificationReceived("OPENWEATHER_FORECAST_WEATHER_UPDATE", payload) of
\* the module fed by the broadcast, which the framework calls on every
\* module object: this.weatherData = payload; this.updateDom(...)
notificationReceived(payload) ==
  /\ \E j \in InstanceIds : view[j].started /\ view[j].frontEnd = "broadcast"
  /\ fe' = [j \in InstanceIds |->
              IF view[j].started THEN [fe[j] EXCEPT !.weatherData = payload]
              ELSE fe[j]]
  /\ view' = [j \in InstanceIds |->
                IF view[j].started THEN updateDom(fe'[j], feConfig[j], view[j])
                ELSE view[j]]
  /\ \A j \in InstanceIds : Len(view'[j].pending) <= MaxPendingDom
  /\ UNCHANGED backVars

\* the framework puts the oldest waiting wrapper of module object j into the
\* document in place of the one it holds; its canvases are new and blank,
\* and this.charts keep the charts built on the canvases that were replaced.
\* `replaces`: a wrapper with the content the document already holds is put
\* in its place or dropped, as the framework decides
InstallDom(j) ==
  /\ view[j].pending # <<>>
  /\ \E replaces \in BOOLEAN :
       /\ Head(view[j].pending) # view[j].dom => replaces
       /\ view' = [view EXCEPT ![j].dom = Head(view[j].pending),
                               ![j].pending = Tail(view[j].pending),
                               ![j].ahead = IF @ > 0 THEN @ - 1 ELSE 0,
                               ![j].canvas = IF replaces THEN NullObj ELSE @]
  /\ UNCHANGED <<backVars, fe>>

\* the module object after its render callback
renderCallback(state, config, v, throws) ==
  IF v.frontEnd = "helper" THEN renderTimeout(state, config, v, throws)
  ELSE animationFrame(state, config, v, throws)

\* the render callback of module object j runs; `throws`: the new Chart(...)
\* from which Chart.js throws, 0 for none
RenderTimeout(j) ==
  /\ view[j].timers > 0
  /\ \E throws \in Throws :
       view' = [view EXCEPT ![j] = renderCallback(fe[j], feConfig[j], view[j], throws)]
  /\ UNCHANGED <<backVars, fe>>

\* suspend(): destroyAllCharts()
suspend(j) ==
  /\ view[j].started
  /\ view' = [view EXCEPT ![j].charts = NullObj, ![j].canvas = NullObj]
  /\ UNCHANGED <<backVars, fe>>

\* resume(): if (this.weatherData) this.updateDom(...)
resume(j) ==
  /\ view[j].started
  /\ view' = [view EXCEPT ![j] = IF fe[j].weatherData # NullObj
                                   THEN updateDom(fe[j], feConfig[j], view[j])
                                   ELSE view[j]]
  /\ fe[j].weatherData # NullObj => Len(view'[j].pending) <= MaxPendingDom
  /\ UNCHANGED <<backVars, fe>>

\* the framework builds the module's DOM once after start(): updateDom()
CreateDom(j) ==
  /\ view[j].started
  /\ ~view[j].created
  /\ view' = [view EXCEPT ![j] = [updateDom(fe[j], feConfig[j], view[j])
                                    EXCEPT !.created = TRUE]]
  /\ Len(view'[j].pending) <= MaxPendingDom
  /\ UNCHANGED <<backVars, fe>>

FrontNext ==
  \/ \E j \in InstanceIds : start(j)
  \/ \E j \in InstanceIds : CreateDom(j)
  \/ \E msg \in FrontMessages : Notification(msg)
  \/ \E payload \in FrontPayloads : notificationReceived(payload)
  \/ \E j \in InstanceIds : InstallDom(j)
  \/ \E j \in InstanceIds : RenderTimeout(j)
  \/ \E j \in InstanceIds : suspend(j)
  \/ \E j \in InstanceIds : resume(j)

FrontSpec == FrontInit /\ [][FrontNext]_vars


\* ------------------------------------------------------------------ claims
InstanceCalls(i) == { v \in InvIds : calls[v].inst = i }

\* an invocation has delivered its data or its error
Done(v) == calls[v].pc \in {"data", "error"}

\* the positions in the queue of the notifications addressed to instance i
QueuedFor(i) == { n \in 1..Len(queue) : queue[n].instanceId = i }

\* the notification the CONFIG handler sends for a cached payload
CachedMsg(i, payload) == DataMsg(i, dataCache[cacheKey(payload)], FromConfig)

\* C1 as stated: a CONFIG message for an instance that is already registered
\* changes nothing: no fetch, no timer, the stored configuration unchanged
\* and no notification sent.
C1_RepeatConfigNoOp ==
  [][\A i \in InstanceIds : \A payload \in Configs :
       (instances[i] # UndefinedObj /\ ReceiveConfig(i, payload))
         => UNCHANGED <<instances, timers, calls, nCalls, queue>>]_vars

\* C1 amended: a CONFIG message for an instance that is already registered
\* starts no fetch, creates no timer and leaves the stored configuration
\* unchanged; it sends exactly the cached payload of the message's coordinate
\* pair when the data cache holds one, and nothing otherwise.
C1_RepeatConfigOnlyResendsCache ==
  [][\A i \in InstanceIds : \A payload \in Configs :
       (instances[i] # UndefinedObj /\ ReceiveConfig(i, payload))
         => /\ UNCHANGED <<instances, timers, calls, nCalls, gridUrlCache, dataCache>>
            /\ queue' = IF dataCache[cacheKey(payload)] # UndefinedObj
                          THEN Append(queue, CachedMsg(i, payload))
                          ELSE queue]_vars

\* a registered instance whose first CONFIG found nothing cached has been
\* sent a cached payload by a later CONFIG
C1_Witness ==
  \E i \in InstanceIds :
    /\ firstCfg[i] = "miss"
    /\ \E n \in QueuedFor(i) : queue[n].src = FromConfig

\* C2: every instance that has sent CONFIG has one registry entry and one
\* recurring timer, an instance that has not has neither, and an entry, once
\* made, and the timers are never changed afterwards.
C2_OneEntryOneTimer ==
  /\ [](\A i \in InstanceIds :
         /\ firstCfg[i] # "none" => (instances[i] = feConfig[i] /\ timers[i] = 1)
         /\ firstCfg[i] = "none" => (instances[i] = UndefinedObj /\ timers[i] = 0))
  /\ [][\A i \in InstanceIds :
          instances[i] # UndefinedObj
            => (instances'[i] = instances[i] /\ timers'[i] = timers[i])]_vars

\* a registered instance whose interval callback has fired and whose two
\* fetches have ended has sent CONFIG again (the reply is in flight) and
\* still has its one timer
C2_Witness ==
  \E i \in InstanceIds :
    /\ instances[i] # UndefinedObj /\ timers[i] = 1
    /\ \E v \in InstanceCalls(i) : calls[v].kind = "tick" /\ Done(v)
    /\ \A v \in InstanceCalls(i) : Done(v)
    /\ firstCfg[i] = "miss"
    /\ \E n \in QueuedFor(i) : queue[n].src = FromConfig

\* no invocation of instance i has delivered data or an error yet
NoOwnOutcome(i) == \A v \in InstanceCalls(i) : ~Done(v)

\* C3, first half (both versions): the first CONFIG of an instance sends the
\* cached payload of its coordinate pair if there is one, and nothing if not.
C3_FirstConfigStep ==
  \A i \in InstanceIds : \A payload \in Configs :
    (instances[i] = UndefinedObj /\ ReceiveConfig(i, payload))
      => queue' = IF dataCache[cacheKey(payload)] # UndefinedObj
                    THEN Append(queue, CachedMsg(i, payload))
                    ELSE queue

\* the cached payload is the first thing the instance receives: while its
\* module object has received nothing, the oldest notification in flight
\* for it is the one the CONFIG handler sent
C3_CachedFirst ==
  \A i \in InstanceIds :
    (firstCfg[i] = "hit" /\ fe[i] = feInit)
      => /\ QueuedFor(i) # {}
         /\ \A n \in QueuedFor(i) :
              (\A m \in QueuedFor(i) : n <= m) => queue[n].src = FromConfig

\* C3 as stated: a cached payload is delivered before any delivery of the
\* instance's own fetch, and when nothing was cached nothing is delivered to
\* the instance until one of its own fetches has delivered data or an error.
C3_NothingUntilOwnFetch ==
  /\ [][C3_FirstConfigStep]_vars
  /\ [](C3_CachedFirst)
  /\ [](\A i \in InstanceIds :
         (firstCfg[i] = "miss" /\ NoOwnOutcome(i))
           => (QueuedFor(i) = {} /\ fe[i] = feInit))

\* C3 amended: a cached payload is delivered before any delivery of the
\* instance's own fetch; when nothing was cached the first CONFIG sends
\* nothing, and until one of the instance's own fetches has delivered data
\* or an error the instance receives only cached payloads sent in answer to
\* its later CONFIG messages (never an error, never a fetch result).
C3_OnlyCacheUntilOwnFetch ==
  /\ [][C3_FirstConfigStep]_vars
  /\ [](C3_CachedFirst)
  /\ [](\A i \in InstanceIds :
         (firstCfg[i] = "miss" /\ NoOwnOutcome(i))
           => /\ \A n \in QueuedFor(i) : queue[n].src = FromConfig
              /\ fe[i].errorMessage = Null)

\* an instance whose first CONFIG was served from the cache has received a
\* payload and its own fetch has delivered data afterwards
C3_Witness ==
  \E i \in InstanceIds :
    /\ firstCfg[i] = "hit"
    /\ fe[i].weatherData # NullObj
    /\ \E v \in InstanceCalls(i) : calls[v].pc = "data"

\* C4 as stated: an invocation that has ended after three failed attempts
\* has sent one error and no data.
C4_ThreeFailuresGiveError ==
  \A v \in InvIds :
    (Done(v) /\ calls[v].fails >= 3) => (calls[v].nErr = 1 /\ calls[v].nData = 0)

\* C4 amended: an invocation has sent an error exactly when four attempts
\* (the first one and the maxRetries = 3 retries) have failed, and then it
\* has sent exactly one error and no data.
C4_FourFailuresGiveError ==
  \A v \in InvIds :
    /\ calls[v].fails = maxRetries + 1
         => (calls[v].pc = "error" /\ calls[v].nErr = 1 /\ calls[v].nData = 0)
    /\ calls[v].nErr > 0 => calls[v].fails = maxRetries + 1
    /\ calls[v].fails <= maxRetries + 1

\* an invocation has exhausted its retries and sent its error
C4_Witness ==
  \E v \in InvIds : calls[v].fails = maxRetries + 1 /\ calls[v].pc = "error"

\* an invocation has a request outstanding or a retry timer pending
Active(v) == calls[v].pc \in {"points", "grid", "retry"}

\* position of an attempt: request for the grid URL, request for the grid
\* properties, waiting for the retry timer
C5_Rank(rec) ==
  IF rec.pc = "points" THEN 3 ELSE IF rec.pc = "grid" THEN 2
  ELSE IF rec.pc = "retry" THEN 1 ELSE 0

\* what an invocation can still do: three positions for each retry that is
\* left, and the positions left in the current attempt
C5_Measure(rec) ==
  IF rec.pc \in {"points", "grid", "retry"}
    THEN 3 * (maxRetries - rec.retryCount) + C5_Rank(rec)
    ELSE 0

C5_Outcome ==
  \A v \in InvIds :
    /\ calls[v].retryCount <= maxRetries
    /\ calls[v].fails <= maxRetries + 1
    /\ C5_Measure(calls[v]) >= 0
    /\ Active(v) => (calls[v].nData = 0 /\ calls[v].nErr = 0)
    /\ Done(v) => calls[v].nData + calls[v].nErr = 1
    /\ calls[v].pc = "data" => calls[v].nData = 1
    /\ calls[v].pc = "error" => calls[v].nErr = 1

C5_Step ==
  \A v \in InvIds :
    /\ (Active(v) /\ calls'[v] # calls[v])
         => /\ C5_Measure(calls'[v]) < C5_Measure(calls[v])
            /\ Active(v)' \/ Done(v)'
    /\ Done(v) => calls'[v] = calls[v]
    /\ (calls[v].pc = "none" /\ calls'[v].pc # "none"
          /\ instances[calls'[v].inst] # UndefinedObj)
         => calls'[v].kind = "tick"

\* C5: an invocation for an instance with coordinates makes at most
\* maxRetries + 1 attempts: each of its steps lowers a measure that starts
\* at 3 * maxRetries + 3 and never goes below 0, and it leaves its requests
\* and retry timers only by sending its outcome. It has sent nothing while
\* it is active and exactly one notification (data or error) once it has
\* ended; after that it never moves again, so a new attempt for the instance
\* is a new invocation started by an interval callback.
C5_OneOutcomePerInvocation ==
  /\ [](C5_Outcome)
  /\ [][C5_Step]_vars

\* an invocation of an instance has ended with an error and a later one,
\* started by the interval callback, has delivered data
C5_Witness ==
  \E v, w \in InvIds :
    /\ calls[v].inst = calls[w].inst
    /\ calls[v].pc = "error" /\ calls[v].retryCount = maxRetries
    /\ calls[w].kind = "tick" /\ calls[w].pc = "data"

\* the coordinate key of invocation v
KeyOf(v) == cacheKey(instances[calls[v].inst])

\* invocation v issues a points request in this step
IssuesPointsRequest(v) == calls'[v].pc = "points" /\ calls[v].pc # "points"

\* C6: once a points response has given a grid URL for a coordinate pair,
\* no fetch and no retry for that pair issues a points request (so two
\* successive successful fetches issue one points request and two grid
\* requests).
C6_NoResolutionAfterSuccess ==
  [][\A v \in InvIds :
       IssuesPointsRequest(v)
         => ~gridResolved[cacheKey(instances'[calls'[v].inst])]]_vars

\* invocation v assigns the grid URL of its points response to the cache
\* entry of its coordinate pair in this step
AssignsGridUrl(v) == calls[v].pc = "points" /\ calls'[v].pc = "grid"

\* C7 as stated: the grid cache entry of a coordinate pair is assigned a
\* grid URL at most once (no step assigns one to an entry that has been
\* assigned one before), and a cached URL is never changed or removed.
C7_GridCacheWriteOnce ==
  /\ [][\A v \in InvIds : AssignsGridUrl(v) => ~gridResolved[KeyOf(v)]]_vars
  /\ [][\A k \in CacheKeys :
          gridUrlCache[k] \in GridUrls => gridUrlCache'[k] = gridUrlCache[k]]_vars

\* C8: a step in which an attempt fails (a retry is scheduled or the error
\* is sent) leaves the data cache as it was, and every successful grid
\* response sends the data, whatever failed before.
C8_FailureKeepsDataCache ==
  [][/\ (\/ nFail' = nFail + 1
         \/ \E v \in InvIds : (calls'[v].fails # calls[v].fails
                               \/ calls'[v].nErr # calls[v].nErr))
        => dataCache' = dataCache
     /\ \A v \in InvIds :
          (calls[v].pc = "grid" /\ nFail' = nFail /\ calls'[v] # calls[v])
            => /\ calls'[v].pc = "data"
               /\ queue' = Append(queue, DataMsg(calls[v].inst, dataCache'[KeyOf(v)], v))]_vars

\* an instance got an error although a payload was cached for its
\* coordinate pair, the payload is still cached, and a later fetch of the
\* same instance has delivered data that its module object now shows
C8_Witness ==
  \E v, w \in InvIds :
    /\ calls[v].inst = calls[w].inst
    /\ calls[v].pc = "error" /\ calls[w].pc = "data" /\ calls[w].kind = "tick"
    /\ dataCache[KeyOf(v)] # UndefinedObj
    /\ queue = <<>>
    /\ fe[calls[v].inst].errorMessage = Null
    /\ fe[calls[v].inst].weatherData = dataCache[KeyOf(v)]

\* C9: a step in which an invocation sends its data leaves the data cache
\* entry of the instance's coordinate pair equal to the payload sent, and
\* the data cache changes in no other step and at no other key.
C9_CacheEqualsDelivered ==
  [][/\ \A v \in InvIds :
          calls'[v].nData # calls[v].nData
            => /\ Len(queue') = Len(queue) + 1
               /\ queue'[Len(queue')].type = "WEATHER_GRAPH_DATA"
               /\ queue'[Len(queue')].src = v
               /\ dataCache'[KeyOf(v)] = queue'[Len(queue')].data
     /\ dataCache' # dataCache
          => \E v \in InvIds :
               /\ calls'[v].nData = calls[v].nData + 1
               /\ \A k \in CacheKeys \ {KeyOf(v)} : dataCache'[k] = dataCache[k]]_vars

\* a payload sent by a fetch is in flight and the data cache holds it
C9_Witness ==
  \E n \in 1..Len(queue) :
    /\ queue[n].src \in InvIds
    /\ queue[n].type = "WEATHER_GRAPH_DATA"
    /\ dataCache[KeyOf(queue[n].src)] = queue[n].data

\* C10: a notification sent by a fetch invocation carries the instanceId of
\* the instance that invocation belongs to, and a module object's state
\* changes only in a step that hands it a notification whose instanceId is
\* its own identifier.
C10_AddressedDelivery ==
  /\ [](\A n \in 1..Len(queue) :
         queue[n].src \in InvIds => queue[n].instanceId = calls[queue[n].src].inst)
  /\ [][\A j \in InstanceIds :
          fe'[j] # fe[j]
            => (queue # <<>> /\ Head(queue).instanceId = j /\ queue' = Tail(queue))]_vars

\* one module object has taken the data addressed to it while the object of
\* the other registered instance, which saw the same notification, is
\* unchanged
C10_Witness ==
  \E i, j \in InstanceIds :
    /\ i # j
    /\ instances[i] # UndefinedObj /\ instances[j] # UndefinedObj
    /\ fe[i].weatherData # NullObj
    /\ fe[j] = feInit

\* no request of instance j has failed
NeverFailed(j) == \A v \in InstanceCalls(j) : calls[v].fails = 0

\* an attempt of instance i fails in this step
FailsNow(i) == \E v \in InstanceCalls(i) : calls'[v].fails > calls[v].fails

\* C11: a registered instance none of whose requests failed is sent data
\* only, shows no error, and every invocation of it that has ended has
\* delivered data, whatever happens to the other instance; and a step in
\* which an attempt of one instance fails leaves the other instance's
\* registry entry, timer, invocations, notifications and module object as
\* they were, and, when the coordinates differ, its cache entries too.
C11_FailureScopedToInstance ==
  /\ [](\A j \in InstanceIds :
         (instances[j] # UndefinedObj /\ NeverFailed(j))
           => /\ \A n \in QueuedFor(j) : queue[n].type = "WEATHER_GRAPH_DATA"
              /\ fe[j].errorMessage = Null
              /\ \A v \in InstanceCalls(j) :
                   calls[v].pc \in {"nocoord", "points", "grid", "data"})
  /\ [][\A i, j \in InstanceIds :
          (i # j /\ FailsNow(i))
            => /\ instances'[j] = instances[j]
               /\ timers'[j] = timers[j]
               /\ \A w \in InstanceCalls(j) : calls'[w] = calls[w]
               /\ fe'[j] = fe[j]
               /\ \A n \in 1..Len(queue') :
                    queue'[n].instanceId = j => (n <= Len(queue) /\ queue'[n] = queue[n])
               /\ cacheKey(feConfig[i]) # cacheKey(feConfig[j])
                    => /\ gridUrlCache'[cacheKey(feConfig[j])] = gridUrlCache[cacheKey(feConfig[j])]
                       /\ dataCache'[cacheKey(feConfig[j])] = dataCache[cacheKey(feConfig[j])]]_vars

\* of two instances at different coordinates, the first has had all four
\* attempts fail and shows the error, the second has been served without a
\* failure and shows its data
C11_Witness ==
  \E i, j \in InstanceIds :
    /\ cacheKey(feConfig[i]) # cacheKey(feConfig[j])
    /\ \E v \in InstanceCalls(i) : calls[v].pc = "error" /\ calls[v].fails = maxRetries + 1
    /\ fe[i].errorMessage # Null
    /\ \E w \in InstanceCalls(j) : calls[w].pc = "data"
    /\ NeverFailed(j)
    /\ fe[j].weatherData = dataCache[cacheKey(feConfig[j])]
    /\ fe[j].errorMessage = Null
    /\ dataCache[cacheKey(feConfig[i])] = UndefinedObj

\* a duration of the form PT<n>H
IsWholeHours(duration) ==
  /\ Len(duration) >= 4
  /\ duration[1] = "P" /\ duration[2] = "T" /\ duration[Len(duration)] = "H"
  /\ \A k \in 3..(Len(duration) - 1) : IsDigit(duration[k])

\* C12: the duration decoder returns n for a duration of the form PT<n>H
\* and 1 for a duration string of any other form.
C12_WholeHoursOrOne ==
  (norm.fn = "parseDuration" /\ ~norm.threw)
    => norm.result = IF IsWholeHours(norm.duration)
                       THEN parseInt(SubSeq(norm.duration, 3, Len(norm.duration) - 1))
                       ELSE 1

\* C13: the duration decoder returns at least 1 for every duration string,
\* and every record with a validTime that the expander takes gives at least
\* one sample.
C13_AtLeastOneHour ==
  /\ (norm.fn = "parseDuration" /\ ~norm.threw) => norm.result >= 1
  /\ (norm.fn = "expandTimeSeries" /\ ~norm.threw)
       => Len(norm.result) >=
            Cardinality({ k \in 1..Len(norm.values) : norm.values[k].validTime # <<>> })

\* C14: a grid response that is ok ends the fetch in a data delivery,
\* without a failed attempt, whatever decode anomalies (a duration that is
\* not in whole hours, a validTime without a duration) and missing samples
\* its body has.
C14_AnomalyNeverAborts ==
  [][\A v \in InvIds : \A properties \in RawProperties :
       GridOk(v, properties) => (calls'[v].pc = "data" /\ nFail' = nFail)]_vars

\* hours decoded for a record; a record without validTime is passed over
decodedHours(item) ==
  IF item.validTime = <<>> THEN 0 ELSE parseDuration(durationStrOf(item))

RECURSIVE sumOfHours(_)
sumOfHours(values) ==
  IF values = <<>> THEN 0 ELSE decodedHours(Head(values)) + sumOfHours(Tail(values))

\* C15: for a series in which every validTime has its duration part, the
\* expander returns, record after record in the order given, one sample
\* for each of the record's decoded hours, at start + 0h, + 1h, ..., with
\* the record's value; the length is the sum of the decoded hours.
C15_ExpandsRecordByRecord ==
  (norm.fn = "expandTimeSeries"
     /\ \A k \in 1..Len(norm.values) : Len(norm.values[k].validTime) # 1)
    => /\ ~norm.threw
       /\ Len(norm.result) = sumOfHours(norm.values)
       /\ \A k \in 1..Len(norm.values) : \A h \in 1..decodedHours(norm.values[k]) :
            norm.result[sumOfHours(SubSeq(norm.values, 1, k - 1)) + h]
              = [time |-> startOf(norm.values[k]) + (h - 1) * HourMs,
                 value |-> norm.values[k].value]

\* two records of two hours each, the later one first and the second with
\* a null value: four samples, in the order of the records
C15_Witness ==
  /\ norm.fn = "expandTimeSeries"
  /\ norm.values = <<Rec(HourMs, PT2H, 10), Rec(0, PT2H30M, NullNum)>>
  /\ Len(norm.result) = 4
  /\ norm.result[1].time = HourMs /\ norm.result[3].time = 0
  /\ norm.result[4] = [time |-> HourMs, value |-> NullNum]

\* C16: the sampler returns the value of the first sample of the list whose
\* hour [time, time + 1h) holds the target, else the value of the last
\* sample of the list whose time is not after the target, else null; with
\* samples at hours 0 and 6 of values 10 and 20, hour 3 gives 10, hour 6
\* gives 20 and hour -1 gives null.
C16_FirstHoldingElseLastBefore ==
  norm.fn = "findValueAtTime"
    => LET e == norm.expandedValues
           t == norm.targetTime
           holding == { k \in 1..Len(e) : e[k].time <= t /\ t < e[k].time + HourMs }
           before == { k \in 1..Len(e) : e[k].time <= t }
       IN /\ holding # {}
               => \E k \in holding : (\A m \in holding : k <= m) /\ norm.result = e[k].value
          /\ (holding = {} /\ before # {})
               => \E k \in before : (\A m \in before : k >= m) /\ norm.result = e[k].value
          /\ before = {} => norm.result = NullNum
          /\ e = <<[time |-> 0, value |-> 10], [time |-> 6 * HourMs, value |-> 20]>>
               => /\ t = 3 * HourMs => norm.result = 10
                  /\ t = 6 * HourMs => norm.result = 20
                  /\ t = 0 - HourMs => norm.result = NullNum

\* no sample holds hour 3, two samples are before it, and the later one in
\* the list (which is not the later one in time) gives the value
C16_Witness ==
  /\ norm.fn = "findValueAtTime"
  /\ norm.expandedValues = <<[time |-> 1800000, value |-> 10], [time |-> 0, value |-> 20]>>
  /\ norm.targetTime = 3 * HourMs
  /\ norm.result = 20

\* C17 as stated: a payload has exactly hoursToShow hourly samples,
\* hoursToShow being the configured value brought into 1..48; the first dt is
\* the top of the current hour (the instant at which the helper's clock,
\* which shows local time, last showed a whole hour: minutes, seconds and
\* milliseconds 0, and the clock reading less than an hour later) and each
\* dt is 3600 seconds after the one before it.
C17_WindowOfHourlySamples ==
  (norm.fn = "processWeatherData" /\ ~norm.threw)
    => LET hourly == norm.result.hourly IN
       /\ norm.config.hoursToShow \in 1..48
       /\ norm.configured \in 1..48 => norm.config.hoursToShow = norm.configured
       /\ Len(hourly) = norm.config.hoursToShow
       /\ LocalTime(hourly[1].dt * 1000, norm.zone) % HourMs = 0
       /\ hourly[1].dt * 1000 <= norm.now /\ norm.now < hourly[1].dt * 1000 + HourMs
       /\ \A k \in 2..Len(hourly) : hourly[k].dt = hourly[k - 1].dt + 3600

\* a payload normalized half an hour into the hour that the clocks, put
\* back, show for the second time: its first sample is the top of the first
\* showing of that hour, an hour and a half before the clock reading
C17_RepeatedHour ==
  /\ norm.fn = "processWeatherData" /\ ~norm.threw
  /\ norm.zone = NewYork /\ norm.now = HourMs + 1800000
  /\ norm.result.hourly[1].dt = 0

\* what the sampler gives for a quantity at the k-th target hour of the call
sampledAt(quantity, k) ==
  findValueAtTime(expandTimeSeries(valuesOf(norm.properties, quantity)),
                  startHourOf(norm.now, norm.zone) + (k - 1) * HourMs)

\* C18: for probabilities given in percent (0 to 100, or null), pop lies
\* in [0, 1] (0 to 100 hundredths) in every hourly sample, and it is 0 when
\* the probability is absent at the target hour.
C18_PopInUnitInterval ==
  (norm.fn = "processWeatherData" /\ ~norm.threw)
    => \A k \in 1..Len(norm.result.hourly) :
         LET sampled == sampledAt("probabilityOfPrecipitation", k) IN
         /\ norm.result.hourly[k].pop \in 0..100
         /\ sampled = NullNum => norm.result.hourly[k].pop = 0
         /\ sampled # NullNum => norm.result.hourly[k].pop = sampled

\* the probability series starts one hour into the window: pop is 0 in the
\* first sample and 0.4 in the second
C18_Witness ==
  /\ norm.fn = "processWeatherData" /\ ~norm.threw
  /\ norm.properties["probabilityOfPrecipitation"] = <<Rec(HourMs, PT1H, 40)>>
  /\ norm.now = 1800000
  /\ Len(norm.result.hourly) >= 2
  /\ norm.result.hourly[1].pop = 0 /\ norm.result.hourly[2].pop = 40

\* C19: when a quantity is absent at a target hour, the field of the hourly
\* sample is null in both unit systems, and the three conversions give null
\* for null.
C19_AbsentStaysNull ==
  /\ celsiusToFahrenheit(NullNum) = NullNum
  /\ kphToMph(NullNum) = NullNum
  /\ mmToInches(NullNum) = NullNum
  /\ (norm.fn = "processWeatherData" /\ ~norm.threw)
       => \A k \in 1..Len(norm.result.hourly) :
            /\ sampledAt("temperature", k) = NullNum
                 => norm.result.hourly[k].temp = NullNum
            /\ sampledAt("apparentTemperature", k) = NullNum
                 => norm.result.hourly[k].feels_like = NullNum
            /\ sampledAt("windSpeed", k) = NullNum
                 => norm.result.hourly[k].wind_speed = NullNum
            /\ sampledAt("windGust", k) = NullNum
                 => norm.result.hourly[k].wind_gust = NullNum

\* the record lies entirely outside the window of the call
entirelyOutside(item) ==
  \/ startOf(item) + parseDuration(durationStrOf(item)) * HourMs
       <= startHourOf(norm.now, norm.zone)
  \/ startOf(item) >= startHourOf(norm.now, norm.zone) + norm.hoursToShow * HourMs

\* C20: every period the extractor emits has
\* 0 <= startIndex <= endIndex <= hoursToShow, and the periods emitted are
\* those of the records with a non-zero value that do not lie entirely
\* outside the window, one for each, in order.
C20_PeriodsClippedToWindow ==
  norm.fn = "extractPrecipitationPeriods"
    => /\ \A n \in 1..Len(norm.result) :
            /\ 0 <= norm.result[n].startIndex
            /\ norm.result[n].startIndex <= norm.result[n].endIndex
            /\ norm.result[n].endIndex <= norm.hoursToShow
       /\ Len(norm.result) =
            Cardinality({ k \in 1..Len(norm.values) :
                            norm.values[k].value # 0 /\ ~entirelyOutside(norm.values[k]) })

\* of two records, the one that ends where the window starts gives no
\* period and the one that starts an hour before the window and lasts two
\* hours is clipped to the one hour of the window
C20_Witness ==
  /\ norm.fn = "extractPrecipitationPeriods"
  /\ norm.values = <<Rec(0 - HourMs, PT1H, 5), Rec(0 - HourMs, PT2H, 5)>>
  /\ norm.now = 1800000 /\ norm.zone = UTC /\ norm.hoursToShow = 1
  /\ Len(norm.result) = 1
  /\ norm.result[1].startIndex = 0 /\ norm.result[1].endIndex = 1

\* C21: every period the extractor emits has a positive native amount
\* (amount_mm): a record whose value is zero, null or negative gives no
\* period.
C21_OnlyPositiveAmounts ==
  norm.fn = "extractPrecipitationPeriods"
    => /\ \A n \in 1..Len(norm.result) :
            norm.result[n].amount_mm # NullNum /\ norm.result[n].amount_mm > 0
       /\ (\A k \in 1..Len(norm.values) :
              norm.values[k].value = NullNum \/ norm.values[k].value <= 0)
            => norm.result = <<>>

\* C22: when a liquid period and a frozen period of the call have the same
\* startIndex and the frozen one has a positive amount, the merged output
\* holds a frozen period with that startIndex and no liquid period with it.
C22_FrozenPreferred ==
  norm.fn = "mergePrecipitationPeriods"
    => \A k \in 1..Len(norm.rainPeriods) : \A n \in 1..Len(norm.snowPeriods) :
         (/\ norm.snowPeriods[n].startIndex = norm.rainPeriods[k].startIndex
          /\ norm.snowPeriods[n].amount > 0)
           => /\ \E m \in 1..Len(norm.result) :
                   /\ norm.result[m].type = "snow"
                   /\ norm.result[m].startIndex = norm.rainPeriods[k].startIndex
              /\ \A m \in 1..Len(norm.result) :
                   norm.result[m].type = "rain"
                     => norm.result[m].startIndex # norm.rainPeriods[k].startIndex

\* the periods the extractor gives for a precipitation quantity of the
\* normalized body
extractedOf(quantity, type) ==
  extractPrecipitationPeriods(valuesOf(norm.properties, quantity), norm.now,
                              norm.config.hoursToShow, norm.config.units, type,
                              norm.zone)

\* C23: in a payload, a liquid period with a positive amount and without a
\* positive frozen period at its startIndex is left out if and only if the
\* temperature of that hour is known (the sampler gives a value) and is at
\* or below the freezing point (32 imperial, 0 metric); when the
\* temperature is missing the liquid period is in the payload, in both
\* unit systems.
C23_DroppedIffKnownFreezing ==
  (norm.fn = "processWeatherData" /\ ~norm.threw)
    => LET rainPeriods == extractedOf("quantitativePrecipitation", "rain")
           snowPeriods == extractedOf("snowfallAmount", "snow")
           merged == norm.result.precipitationPeriods
       IN \A k \in 1..Len(rainPeriods) :
            (/\ rainPeriods[k].amount > 0
             /\ ~\E n \in 1..Len(snowPeriods) :
                   /\ snowPeriods[n].startIndex = rainPeriods[k].startIndex
                   /\ snowPeriods[n].amount > 0)
              => LET known == sampledAt("temperature", rainPeriods[k].startIndex + 1) # NullNum
                     temp == norm.result.hourly[rainPeriods[k].startIndex + 1].temp
                     freezingPoint == IF norm.config.units = "imperial" THEN 32 ELSE 0
                 IN (\A m \in 1..Len(merged) : merged[m] # rainPeriods[k])
                      <=> (known /\ temp <= freezingPoint)

\* C24: the merged output never holds two periods with the same startIndex.
C24_OnePeriodPerStartIndex ==
  norm.fn = "mergePrecipitationPeriods"
    => \A m, n \in 1..Len(norm.result) :
         norm.result[m].startIndex = norm.result[n].startIndex => m = n

\* the start indices consumed by the pass over the liquid periods: those of
\* the liquid periods for which a frozen period was emitted instead
consumedIndices ==
  { norm.rainPeriods[k].startIndex :
      k \in { n \in 1..Len(norm.rainPeriods) :
                \E m \in 1..Len(norm.snowPeriods) :
                  /\ norm.snowPeriods[m].startIndex = norm.rainPeriods[n].startIndex
                  /\ norm.snowPeriods[m].amount > 0
                  /\ \A l \in (m + 1)..Len(norm.snowPeriods) :
                       norm.snowPeriods[l].startIndex # norm.rainPeriods[n].startIndex } }

\* the frozen period is one that the second pass is to emit
unconsumedFrozen(p) == p.amount > 0 /\ p.startIndex \notin consumedIndices

\* the number of entries the pass over the liquid periods emits
liquidEntries ==
  Cardinality({ k \in 1..Len(norm.rainPeriods) :
                  \/ norm.rainPeriods[k].startIndex \in consumedIndices
                  \/ /\ norm.rainPeriods[k].amount > 0
                     /\ ~isFreezing(norm.rainPeriods[k], norm.hourly, norm.units) })

\* C25: the frozen periods with a positive amount whose startIndex was not
\* consumed by a liquid period are, each once and in their order, the end
\* of the merged output, after every entry that comes from the liquid
\* periods and whatever the temperatures are; none of them is among the
\* entries that come from the liquid periods.
C25_UnconsumedFrozenAppended ==
  norm.fn = "mergePrecipitationPeriods"
    => /\ liquidEntries <= Len(norm.result)
       /\ SubSeq(norm.result, liquidEntries + 1, Len(norm.result))
            = SelectSeq(norm.snowPeriods, unconsumedFrozen)
       /\ \A m \in 1..liquidEntries :
            norm.result[m].type = "rain" \/ norm.result[m].startIndex \in consumedIndices

\* freezing first hour: the liquid period of the first hour is dropped, the
\* one of the second hour is replaced by the frozen period of that hour,
\* and the frozen period of the first hour follows at the end
C25_Witness ==
  /\ norm.fn = "mergePrecipitationPeriods"
  /\ norm.units = "imperial"
  /\ norm.hourly[1].temp = 0
  /\ Len(norm.rainPeriods) = 2 /\ Len(norm.snowPeriods) = 2
  /\ norm.rainPeriods[1].startIndex = 1 /\ norm.rainPeriods[2].startIndex = 1
  /\ norm.snowPeriods[1].startIndex = 0 /\ norm.snowPeriods[2].startIndex = 1
  /\ norm.result = <<norm.snowPeriods[2], norm.snowPeriods[2], norm.snowPeriods[1]>>

\* C27: one temperature record of 0 degrees Celsius for six hours (PT6H)
\* that starts where the window starts, normalized in imperial units, gives
\* temp = 32 in the hourly samples 0 to 5.
C27_SixHoursAtFreezing ==
  (/\ norm.fn = "processWeatherData" /\ ~norm.threw
   /\ \E from \in {0, 1800000} :
        /\ norm.properties["temperature"] = <<Rec(from, PT6H, 0)>>
        /\ startHourOf(norm.now, norm.zone) = from
   /\ norm.config.units = "imperial")
    => \A k \in 1..Len(norm.result.hourly) : k <= 6 => norm.result.hourly[k].temp = 32

\* the record normalized into a window of 24 hours
C27_Witness ==
  /\ norm.fn = "processWeatherData" /\ ~norm.threw
  /\ norm.properties["temperature"] = <<Rec(0, PT6H, 0)>>
  /\ norm.now = 0 /\ norm.config.units = "imperial"
  /\ Len(norm.result.hourly) = 24
  /\ \A k \in 1..6 : norm.result.hourly[k].temp = 32 /\ norm.result.hourly[k].dt = (k - 1) * 3600

\* the payload has the window length and the unit system of the
\* configuration
normalizedWith(data, config) ==
  /\ Len(data.hourly) = hoursToShowOf(config)
  /\ \A m \in 1..Len(data.precipitationPeriods) :
       data.precipitationPeriods[m].units = unitsOf(config)

\* C28: every WEATHER_GRAPH_DATA payload sent to an instance, and the
\* payload an instance shows, was normalized with that instance's own
\* configuration: it has hoursToShow hourly samples and its periods are in
\* the instance's unit system, also when it is served from the data cache
\* at registration.
C28_PayloadOfOwnConfiguration ==
  /\ \A n \in 1..Len(queue) :
       queue[n].type = "WEATHER_GRAPH_DATA"
         => normalizedWith(queue[n].data, feConfig[queue[n].instanceId])
  /\ \A j \in InstanceIds :
       fe[j].weatherData # NullObj => normalizedWith(fe[j].weatherData, feConfig[j])

\* the invocations of instance i with a request in flight or a retry pending
ActiveOf(i) == { v \in InstanceCalls(i) : Active(v) }

\* C29 as stated: for each instance at most one fetch invocation is active
\* at any time.
C29_AtMostOneActive ==
  \A i \in InstanceIds : Cardinality(ActiveOf(i)) <= 1

\* C29 as the code has it: whenever the interval timer of an instance runs
\* (and the model has an invocation slot left), a tick can start a new fetch
\* of that instance, whether or not an earlier invocation of it is still
\* active.
C29_TickStartsRegardless ==
  \A i \in InstanceIds :
    (timers[i] > 0 /\ nCalls < MaxCalls) => ENABLED IntervalTick(i)

\* two invocations of one instance: the one started by the tick has
\* delivered its data while the earlier one waits for its retry timer
C29_Witness ==
  \E v, w \in InvIds :
    /\ v < w /\ calls[v].inst = calls[w].inst /\ calls[v].inst # "none"
    /\ calls[w].kind = "tick"
    /\ calls[v].pc = "retry"
    /\ calls[w].pc = "data"
    /\ fe[calls[w].inst].weatherData # NullObj

\* C30: a retry is pending only after a failed attempt, the delay of the
\* retry scheduled after attempt k + 1 (k = 0, 1, 2) is 5000, 10000, 20000
\* ms, the retry timer starts attempt k + 2, and an invocation makes at most
\* maxRetries + 1 = 4 attempts.
C30_BackoffDoubles ==
  /\ [](\A v \in InvIds :
         /\ calls[v].retryCount <= maxRetries /\ calls[v].fails <= maxRetries + 1
         /\ calls[v].pc = "retry"
              => /\ calls[v].retryCount \in 0..2
                 /\ calls[v].fails = calls[v].retryCount + 1
                 /\ calls[v].retryCount = 0 => calls[v].delay = 5000
                 /\ calls[v].retryCount = 1 => calls[v].delay = 10000
                 /\ calls[v].retryCount = 2 => calls[v].delay = 20000)
  /\ [][\A v \in InvIds :
          /\ (calls'[v].pc = "retry" /\ calls[v].pc # "retry")
               => /\ calls[v].pc \in {"points", "grid"}
                  /\ calls'[v].fails = calls[v].fails + 1
                  /\ calls'[v].retryCount = calls[v].retryCount
          /\ (calls[v].pc = "retry" /\ calls'[v].pc # "retry")
               => /\ calls'[v].pc \in {"points", "grid"}
                  /\ calls'[v].retryCount = calls[v].retryCount + 1
                  /\ calls'[v].fails = calls[v].fails]_vars

\* the third retry of an invocation is pending, with a delay of 20 seconds
C30_Witness ==
  \E v \in InvIds :
    calls[v].pc = "retry" /\ calls[v].retryCount = 2 /\ calls[v].fails = 3
      /\ calls[v].delay = 20000

\* the periods of a merged output: of a call of the merger, or of a payload
mergedPeriods ==
  IF norm.fn = "mergePrecipitationPeriods" THEN norm.result
  ELSE IF norm.fn = "processWeatherData" THEN norm.result.precipitationPeriods
  ELSE <<>>

\* the hourly ranges [startIndex, endIndex) of two periods share an hour
rangesOverlap(p, q) == p.startIndex < q.endIndex /\ q.startIndex < p.endIndex

\* C31 as stated: a merged output never holds a liquid and a frozen period
\* whose hourly ranges [startIndex, endIndex) overlap.
C31_NoOverlappingLiquidAndFrozen ==
  \A k, n \in 1..Len(mergedPeriods) :
    (mergedPeriods[k].type = "rain" /\ mergedPeriods[n].type = "snow")
      => ~rangesOverlap(mergedPeriods[k], mergedPeriods[n])

\* a payload with liquid over hours [0, 2) and frozen over hour [1, 2), each
\* from one record with a positive amount
C31_OverlapWithDifferentStart ==
  /\ norm.fn = "processWeatherData"
  /\ norm.properties["quantitativePrecipitation"] = <<Rec(0, PT2H, 5), Rec(HourMs, PT1H, 0)>>
  /\ norm.properties["snowfallAmount"] = <<Rec(HourMs, PT1H, 30)>>
  /\ \E k, n \in 1..Len(mergedPeriods) :
       /\ mergedPeriods[k].type = "rain" /\ mergedPeriods[n].type = "snow"
       /\ mergedPeriods[k].startIndex = 0 /\ mergedPeriods[k].endIndex = 2
       /\ mergedPeriods[n].startIndex = 1 /\ mergedPeriods[n].endIndex = 2

\* the wrapper the document of a module object holds once every wrapper
\* handed to the framework is in the document
settledDom(v) == IF v.pending = <<>> THEN v.dom ELSE v.pending[Len(v.pending)]

C35_OneRenderPending ==
  /\ [](\A j \in InstanceIds :
          /\ view[j].timers <= 1
          /\ view[j].renderPending <=> view[j].timers = 1)
  /\ [][\A j \in InstanceIds :
          /\ view[j].renderPending => view'[j].timers <= view[j].timers
          /\ RenderTimeout(j) =>
               /\ ~view'[j].renderPending
               /\ view'[j].timers = 0
          /\ (/\ RenderTimeout(j)
              /\ view'[j] = renderCallback(fe[j], feConfig[j], view[j], 0)
              /\ view[j].ahead = 0
              /\ fe[j].weatherData # NullObj
              /\ settledDom(view[j]) = "charts")
               => view'[j].canvas = chartsBuilt(fe[j].weatherData, feConfig[j], Len(ChartNames))
          /\ \A msg \in FrontMessages :
               (/\ msg.instanceId = j
                /\ msg.type = "WEATHER_GRAPH_DATA"
                /\ ~view[j].renderPending
                /\ Notification(msg))
                 => /\ fe'[j].weatherData = msg.data
                    /\ view'[j].renderPending
                    /\ view'[j].timers = 1]_vars

\* a period whose native amount is positive and whose display amount is not
nativeOnly(p) == p.amount_mm # NullNum /\ p.amount_mm > 0 /\ ~(p.amount > 0)

\* C33: every period of a merged output has a positive display amount, and
\* in a call of the merger a liquid period with a positive display amount
\* that is not at a known freezing temperature is emitted when no frozen
\* period at its startIndex has a positive display amount.
C33_PositiveDisplayAmounts ==
  /\ \A k \in 1..Len(mergedPeriods) :
       mergedPeriods[k].amount # NullNum /\ mergedPeriods[k].amount > 0
  /\ norm.fn = "mergePrecipitationPeriods" =>
       \A k \in 1..Len(norm.rainPeriods) :
         (/\ norm.rainPeriods[k].amount > 0
          /\ ~isFreezing(norm.rainPeriods[k], norm.hourly, norm.units)
          /\ \A n \in 1..Len(norm.snowPeriods) :
               norm.snowPeriods[n].startIndex = norm.rainPeriods[k].startIndex
                 => ~(norm.snowPeriods[n].amount > 0))
           => \E m \in 1..Len(norm.result) : norm.result[m] = norm.rainPeriods[k]

\* a frozen period of 0.1 mm (0.00 in) and a liquid period of 0.5 mm at the
\* same startIndex: the liquid one alone is emitted
C33_Witness ==
  /\ norm.fn = "mergePrecipitationPeriods"
  /\ Len(norm.rainPeriods) = 1 /\ Len(norm.snowPeriods) = 1
  /\ norm.rainPeriods[1].startIndex = norm.snowPeriods[1].startIndex
  /\ norm.rainPeriods[1].amount > 0
  /\ nativeOnly(norm.snowPeriods[1])
  /\ norm.result = norm.rainPeriods

\* the raw records of the liquid and of the frozen series of a grid body
precipitationRecords(properties) ==
  { <<"rain", valuesOf(properties, "quantitativePrecipitation")[k]>> :
      k \in 1..Len(valuesOf(properties, "quantitativePrecipitation")) }
    \cup { <<"snow", valuesOf(properties, "snowfallAmount")[k]>> :
             k \in 1..Len(valuesOf(properties, "snowfallAmount")) }

\* the positions of the hourly samples whose hour a record covers
hoursCovered(item, hourly) ==
  LET from == startOf(item)
      until == from + parseDuration(durationStrOf(item)) * HourMs
  IN { n \in 1..Len(hourly) : from <= hourly[n].dt * 1000 /\ hourly[n].dt * 1000 < until }

\* a record that starts on the hour of the helper's clock (the clock by
\* which the window is laid out), lasts whole hours, is not skipped and
\* covers an hour of the hourly samples
alignedInWindow(item, hourly) ==
  /\ extractReads(item)
  /\ LocalTime(startOf(item), norm.zone) % HourMs = 0
  /\ matchesAt(durationStrOf(item), 1)
  /\ digitsEnd(durationStrOf(item), 3) = Len(durationStrOf(item))
  /\ hoursCovered(item, hourly) # {}

\* C34: in a payload, the period the extractor gives for an hour-aligned
\* record that covers hours of the window has a startIndex k below the window
\* length, hourly[k] is the sample of the hour at which the record, clipped
\* to the window, begins, and endIndex - startIndex is the number of hourly
\* samples the record covers; and every period of the payload has a
\* startIndex that addresses an hourly sample.
C34_SameWindow ==
  (norm.fn = "processWeatherData" /\ ~norm.threw) =>
    LET hourly == norm.result.hourly IN
    /\ \A rec \in precipitationRecords(norm.properties) :
         alignedInWindow(rec[2], hourly) =>
           LET periods == extractPrecipitationPeriods(<<rec[2]>>, norm.now,
                            norm.config.hoursToShow, norm.config.units, rec[1],
                            norm.zone)
               covered == hoursCovered(rec[2], hourly)
           IN /\ Len(periods) = 1
              /\ periods[1].startIndex < norm.config.hoursToShow
              /\ periods[1].startIndex + 1 \in covered
              /\ \A n \in covered : periods[1].startIndex + 1 <= n
              /\ periods[1].endIndex - periods[1].startIndex = Cardinality(covered)
    /\ \A k \in 1..Len(norm.result.precipitationPeriods) :
         norm.result.precipitationPeriods[k].startIndex + 1 \in 1..Len(hourly)

\* a payload whose window starts at 01:00 and a liquid record of 00:00/PT2H:
\* the period is clipped to startIndex 0, endIndex 1
C34_Witness ==
  /\ norm.fn = "processWeatherData" /\ ~norm.threw
  /\ norm.now = HourMs + 1800000
  /\ norm.config.hoursToShow >= 2
  /\ norm.properties["quantitativePrecipitation"] # <<>>
  /\ \E k \in 1..Len(norm.result.precipitationPeriods) :
       /\ norm.result.precipitationPeriods[k].type = "rain"
       /\ norm.result.precipitationPeriods[k].startIndex = 0
       /\ norm.result.precipitationPeriods[k].endIndex = 1
       /\ norm.result.hourly[1].dt * 1000 = HourMs

\* a configuration whose latitude or longitude is missing
withoutCoordinates(c) == c.latitude = 0 \/ c.longitude = 0

\* start() sends no socket notification for such a configuration
startSendsNothingWithoutCoordinates ==
  \A j \in InstanceIds : \A c \in Configs :
    withoutCoordinates(c) => startNotifications(j, c) = <<>>

\* the helper has registered the instance with such a configuration
registeredWithoutCoordinates(i) ==
  instances[i] # UndefinedObj /\ withoutCoordinates(instances[i])

\* C36: start() of a module object whose latitude or longitude is missing
\* sends no socket notification; and every fetchData invocation of an
\* instance the helper has registered with such coordinates has returned at
\* the coordinate guard: it issued no request, failed no attempt, scheduled
\* no retry and sent neither data nor an error, neither cache holds an entry
\* under the instance's cache key, no notification is addressed to the
\* instance, and its module object has received nothing.
C36_NothingWithoutCoordinates ==
  /\ startSendsNothingWithoutCoordinates
  /\ \A i \in InstanceIds :
       registeredWithoutCoordinates(i) =>
         /\ \A v \in InvIds :
              calls[v].inst = i =>
                /\ calls[v].pc = "nocoord"
                /\ calls[v].url = Undefined
                /\ calls[v].retryCount = 0 /\ calls[v].delay = 0 /\ calls[v].fails = 0
                /\ calls[v].nData = 0 /\ calls[v].nErr = 0
         /\ gridUrlCache[cacheKey(instances[i])] = Undefined
         /\ ~gridResolved[cacheKey(instances[i])]
         /\ dataCache[cacheKey(instances[i])] = UndefinedObj
         /\ \A n \in 1..Len(queue) : queue[n].instanceId # i
         /\ fe[i] = feInit

\* an instance registered without a latitude whose registration fetch and
\* whose first interval tick both returned at the guard
C36_Witness ==
  \E i \in InstanceIds :
    /\ registeredWithoutCoordinates(i)
    /\ timers[i] = 1
    /\ \E v, w \in InvIds :
         /\ v # w
         /\ calls[v].inst = i /\ calls[v].kind = "initial" /\ calls[v].pc = "nocoord"
         /\ calls[w].inst = i /\ calls[w].kind = "tick" /\ calls[w].pc = "nocoord"

TypeOK ==
  /\ \A i \in InstanceIds : instances[i] \in Configs \cup {UndefinedObj}
  /\ \A v \in InvIds : calls[v].pc \in {"none", "nocoord", "points", "grid", "retry", "data", "error"}
  /\ Len(queue) <= MaxInFlight

====
